---- MODULE Spec2Model ----
(***************************************************************************)
(* Occupancy monitor: the device registry (backend/device_manager.py), the *)
(* metadata ingestion endpoint, the websocket connection manager and the   *)
(* periodic broadcast task (backend/server.py).                            *)
(*                                                                         *)
(* The server runs on one asyncio event loop, so a handler runs atomically *)
(* from one suspension point (an await that performs I/O) to the next.     *)
(* Every action below is one such run.                                     *)
(***************************************************************************)
EXTENDS Integers, Sequences, FiniteSets, TLC

\* ------------------------------------------------------------------ bounds
StartTime == 1            \* time.time() when the process starts (seconds)
MaxElapsed == 60          \* the clock is followed for this many seconds
MaxElems == 3             \* detection vectors have up to this many elements

\* ------------------------------------------------------- program constants
NumSlots == 5                       \* device_manager.py: for i in range(5)
DEFAULT_VACANT_TIME_MINUTES == 5    \* server.py Config
SecondsPerMinute == 60              \* get_occupancy_state: / 60.0
PersonClass == 0                    \* process_inference_data: == 0
cache_ttl == 300                    \* command_parameter.py: self.cache_ttl

Slots == 0 .. (NumSlots - 1)

\* ----------------------------------------------------------- input domains
\* Device ids are strings, modelled as sequences of characters so that
\* startswith / endswith are computed and not assumed.
AidPrefix == <<"A", "i", "d", "-">>
NoId == <<>>
IdA == AidPrefix \o <<"1", "a">>
IdB == AidPrefix \o <<"2", "a">>
DeviceIds == {IdA, IdB}
RawIds == {IdA, <<"2", "a">>, <<"a">>, <<"z">>}

\* Slot indexes offered to update_device_info (5 is outside the registry).
RebindIndexes == {0, 1, 5}

Conns == {"w1", "w2", "w3"}
NoConn == "none"

\* One detection: a JSON value of the DeserializedData object.  is_dict is
\* FALSE for a value that is not an object (a number, a string).
Person == [is_dict |-> TRUE, has_C |-> TRUE, C |-> 0]
Other == [is_dict |-> TRUE, has_C |-> TRUE, C |-> 1]
NoClass == [is_dict |-> TRUE, has_C |-> FALSE, C |-> 0]
Scalar == [is_dict |-> FALSE, has_C |-> FALSE, C |-> 0]

\* Pre-decoded detection sets a request body may carry (non-empty: an empty
\* object is falsy and takes the Inferences branch).
PreDecoded == {<<Person, Other>>, <<NoClass>>, <<Scalar>>}

\* Outcomes of get_device_info inside get_connection_state: the device
\* document with its two state fields, or a failure (token error, HTTP
\* status other than 200, network exception).
FetchOutcomes ==
  {[ok |-> TRUE, connectionState |-> "Connected",
    operationState |-> "StreamingInferenceResult"],
   [ok |-> FALSE, connectionState |-> "", operationState |-> ""]}

\* Outcomes of the vendor's collectstart / collectstop call: the "result"
\* field of its answer, or "raise" when the call raises.
CommandResults == {"SUCCESS", "ERROR", "raise"}

\* Inbound messages of a viewer: {"type": "ping"}, an object of another or
\* of no type, text that is not JSON, JSON that is not an object.
InboundMessages == {"ping", "other_type", "invalid_json", "not_object"}
NoMessage == [message |-> "none", reply |-> "none"]

\* Paths of uploaded background images.
Backgrounds == {"images/device.png"}

\* Identities of settings requests that may be in flight together.
SettingsRequests == {"s1", "s2"}

\* CommandParameterManager.__init__: an empty cache ({} is falsy), timestamp
\* 0, no device parameters.
NewManager ==
  [parameter_files_cache |-> [present |-> FALSE, parameter_list |-> <<>>],
   cache_timestamp |-> 0, device_parameters |-> {}]

\* The settings file with the device list cfg (ids only) and a threshold.
SettingsOf(cfg, vacant) ==
  [vacant_time_minutes |-> vacant,
   devices |-> [n \in 1 .. Len(cfg) |->
                  [device_id |-> cfg[n], display_name |-> "",
                   background_image |-> ""]]]

Unobserved == SettingsOf(<<>>, 0)

\* No request of the stop / operate / restart handlers has been made.
NoRequest ==
  [pc |-> "idle", handler |-> "none", device_id |-> NoId, index |-> 0,
   inference_active |-> FALSE, stopped |-> FALSE, operated |-> FALSE,
   restarted |-> FALSE, success |-> FALSE, calls |-> <<>>,
   settings |-> Unobserved]

\* A settings request that is not in flight.
IdleSettings ==
  [pc |-> "idle", kind |-> "none", index |-> 0, current_settings |-> Unobserved]

VARIABLES
  now,                  \* time.time(), in seconds
  vacant_time_minutes,  \* DeviceManager.vacant_time_minutes
  devices,              \* DeviceManager.devices: slot -> DeviceState
  id_to_index,          \* DeviceManager.id_to_index, in insertion order
  active_connections,   \* WebSocketConnectionManager.active_connections
  ws,                   \* position of each websocket_endpoint handler
  link,                 \* condition of each viewer's transport
  sent,                 \* snapshots of the current cycle delivered per viewer
  bc_pc,                \* suspension point of the update_clients task
  upd_i,                \* update_all_devices: slot whose fetch is in flight
  fetch_id,             \* update_all_devices: argument of the fetch in flight
  update_data,          \* update_clients: the snapshot composed last
  bc_cur,               \* broadcast_json: connection of the send in flight
  it_rest,              \* broadcast_json: elements the set iterator still holds
  it_used,              \* broadcast_json: set size the iterator was created with
  disconnected_clients, \* broadcast_json: connections whose send raised
  push_conns,           \* history: the connections registered when the push began
  ls_pc,                \* position of lifespan
  meta_status,          \* status of the last answer of the ingestion endpoint
  ws_msg,               \* websocket_endpoint: the message handled last, its reply
  device_out,           \* the payload the first device sends in its requests
  req,                  \* the stop / operate / restart request in flight, or
                        \* the last one answered
  cpm,                  \* CommandParameterManager: cache, timestamp, parameters
  settings,             \* the settings file
  set_req               \* the settings requests in flight

regvars == <<now, vacant_time_minutes, devices, id_to_index>>
hubvars == <<active_connections, ws, link, sent>>
taskvars == <<bc_pc, upd_i, fetch_id, update_data, bc_cur, it_rest, it_used,
              disconnected_clients, push_conns>>
adminvars == <<req, cpm, settings, set_req>>
vars == <<regvars, hubvars, taskvars, ls_pc, meta_status, ws_msg, device_out, adminvars>>

\* ================================================================ strings
StartsWith(s, p) == Len(s) >= Len(p) /\ SubSeq(s, 1, Len(p)) = p
EndsWith(s, p) == Len(s) >= Len(p) /\ SubSeq(s, Len(s) - Len(p) + 1, Len(s)) = p

\* ============================================ dict in insertion order
\* id_to_index is a Python dict: a sequence of [k, v] entries with distinct
\* keys, in insertion order.
DictHas(d, k) == \E n \in 1 .. Len(d) : d[n].k = k
DictPos(d, k) == CHOOSE n \in 1 .. Len(d) : d[n].k = k
DictGet(d, k) == d[DictPos(d, k)].v
DictDel(d, k) ==
  LET n == DictPos(d, k) IN SubSeq(d, 1, n - 1) \o SubSeq(d, n + 1, Len(d))
DictPut(d, k, val) ==
  IF DictHas(d, k) THEN [d EXCEPT ![DictPos(d, k)].v = val]
  ELSE Append(d, [k |-> k, v |-> val])
DictKeys(d) == {d[n].k : n \in 1 .. Len(d)}

\* ============================================================ DeviceState
\* last_inference_data: None, or the request's JSON object with the resolved
\* "DeviceID", the "DeserializedData" object and the "Inferences" list the
\* request came with.
NoData == [present |-> FALSE, DeviceID |-> NoId, DeserializedData |-> <<>>,
           Inferences |-> <<>>]

\* AITRIOSClient.get_connection_state: every exception of the fetch is
\* caught there and answered by ("Unknown", "Unknown").
get_connection_state(outcome) ==
  IF outcome.ok THEN <<outcome.connectionState, outcome.operationState>>
  ELSE <<"Unknown", "Unknown">>

FetchResults == {get_connection_state(o) : o \in FetchOutcomes}

\* last_update_time is written by the code and read by to_dict only; it is
\* left out.  No configured entry carries a background image.
NewDeviceState(device_id, display_name) ==
  [device_id |-> device_id, display_name |-> display_name,
   background_image |-> "",
   connected |-> FALSE, inference_active |-> FALSE,
   operation_state |-> "Unknown", people_count |-> 0,
   last_detection_time |-> 0, last_inference_data |-> NoData]

\* update_from_api dropping the binding of a device the platform does not
\* report as connected
update_from_api_forgetting(dev, connection_state, operation_state) ==
  [dev EXCEPT !.connected = (connection_state = "Connected"),
              !.operation_state = operation_state,
              !.inference_active = FALSE,
              !.device_id = IF connection_state = "Connected"
                            THEN dev.device_id ELSE NoId]

\* last_update_time is written here and read by to_dict only; it is left out.
update_from_api(dev, connection_state, operation_state) ==
  LET conn == (connection_state = "Connected") IN
  [dev EXCEPT !.connected = conn,
              !.operation_state = operation_state,
              !.inference_active =
                 (conn /\ (operation_state = "StreamingInferenceResult"
                           \/ operation_state = "StreamingBoth"))]

\* The loop of process_inference_data over the values of DeserializedData:
\* detection.get on a value that is not an object raises AttributeError.
Raises(dets) == \E n \in 1 .. Len(dets) : ~dets[n].is_dict

RECURSIVE PeopleDetections(_)
PeopleDetections(dets) ==
  IF dets = <<>> THEN 0
  ELSE (IF Head(dets).has_C /\ Head(dets).C = PersonClass THEN 1 ELSE 0)
       + PeopleDetections(Tail(dets))

\* DeviceState.process_inference_data at time t.  The assignment of
\* last_inference_data precedes the loop, so it survives an exception raised
\* by the loop; people_count and last_detection_time do not change then.
\* process_inference_data clearing last_detection_time when nobody is counted
process_inference_data_clearing(dev, device_id, dets, inferences, t) ==
  LET stored == [dev EXCEPT !.last_inference_data =
                              [present |-> TRUE, DeviceID |-> device_id,
                               DeserializedData |-> dets,
                               Inferences |-> inferences]]
      cnt == PeopleDetections(dets)
  IN IF Raises(dets) THEN stored
     ELSE [stored EXCEPT !.people_count = cnt,
                         !.last_detection_time = IF cnt > 0 THEN t ELSE 0]

\* process_inference_data adding the detections to those the slot holds
process_inference_data_merging(dev, device_id, dets, inferences, t) ==
  LET merged == dev.last_inference_data.DeserializedData \o dets
      stored == [dev EXCEPT !.last_inference_data =
                              [present |-> TRUE, DeviceID |-> device_id,
                               DeserializedData |-> merged,
                               Inferences |-> inferences]]
      cnt == PeopleDetections(merged)
  IN IF Raises(merged) THEN stored
     ELSE [stored EXCEPT !.people_count = cnt,
                         !.last_detection_time =
                            IF cnt > 0 THEN t ELSE dev.last_detection_time]

\* process_inference_data setting last_detection_time only when the count
\* rises from 0
process_inference_data_rising(dev, device_id, dets, inferences, t) ==
  LET stored == [dev EXCEPT !.last_inference_data =
                              [present |-> TRUE, DeviceID |-> device_id,
                               DeserializedData |-> dets,
                               Inferences |-> inferences]]
      cnt == PeopleDetections(dets)
  IN IF Raises(dets) THEN stored
     ELSE [stored EXCEPT !.people_count = cnt,
                         !.last_detection_time =
                            IF cnt > 0 /\ dev.people_count = 0 THEN t
                            ELSE dev.last_detection_time]

process_inference_data(dev, device_id, dets, inferences, t) ==
  LET stored == [dev EXCEPT !.last_inference_data =
                              [present |-> TRUE, DeviceID |-> device_id,
                               DeserializedData |-> dets,
                               Inferences |-> inferences]]
      cnt == PeopleDetections(dets)
  IN IF Raises(dets) THEN stored
     ELSE [stored EXCEPT !.people_count = cnt,
                         !.last_detection_time =
                            IF cnt > 0 THEN t ELSE dev.last_detection_time]

\* get_occupancy_state with the threshold compared by <= instead of <
get_occupancy_state_inclusive(dev, vacant, t) ==
  IF dev.people_count > 0 THEN "occupied"
  ELSE IF dev.last_detection_time > 0
          /\ (t - dev.last_detection_time) <= vacant * SecondsPerMinute
       THEN "possibly_occupied"
       ELSE "vacant"

get_occupancy_state(dev, vacant, t) ==
  IF dev.people_count > 0 THEN "occupied"
  ELSE IF dev.last_detection_time > 0
          /\ (t - dev.last_detection_time) < vacant * SecondsPerMinute
       THEN "possibly_occupied"
       ELSE "vacant"

to_dict(dev, vacant, t) ==
  [device_id |-> dev.device_id, display_name |-> dev.display_name,
   background_image |-> dev.background_image,
   connected |-> dev.connected, inference_active |-> dev.inference_active,
   operation_state |-> dev.operation_state,
   people_count |-> dev.people_count,
   last_detection_time |-> dev.last_detection_time,
   occupancy_state |-> get_occupancy_state(dev, vacant, t),
   detections |-> IF dev.last_inference_data.present
                  THEN dev.last_inference_data.DeserializedData ELSE <<>>]

\* ========================================================== DeviceManager
RECURSIVE IdMappingFrom(_, _)
IdMappingFrom(devs, i) ==
  IF i >= NumSlots THEN <<>>
  ELSE LET rest == IdMappingFrom(devs, i + 1) IN
       IF devs[i].device_id # NoId
       THEN \* a later slot with the same id overwrites the value, the key
            \* keeps the position of its first insertion
            IF DictHas(rest, devs[i].device_id)
            THEN <<[k |-> devs[i].device_id,
                    v |-> DictGet(rest, devs[i].device_id)]>>
                 \o DictDel(rest, devs[i].device_id)
            ELSE <<[k |-> devs[i].device_id, v |-> i]>> \o rest
       ELSE rest

update_id_mapping(devs) == IdMappingFrom(devs, 0)

\* get_all_device_states evaluating occupancy with the default threshold
get_all_device_states_default(devs, vacant, t) ==
  [i \in Slots |-> to_dict(devs[i], DEFAULT_VACANT_TIME_MINUTES, t)]

get_all_device_states(devs, vacant, t) ==
  [i \in Slots |-> to_dict(devs[i], vacant, t)]

\* ================================================================ decoder
\* A binary payload (the "O" string of an inference) is modelled by its
\* structure: whether the string is empty, whether it is valid base64,
\* whether the walk to the root and Perception tables stays inside the
\* buffer (root_ok), whether the root table has its Perception field and the
\* Perception table its detection vector, and the elements of that vector.
\* An element is the detection table the vector points to: for every field
\* whether the table has it and its value, and whether a read inside the
\* element leaves the buffer (corrupt).
Elem(corrupt, has_class, c, has_score, p, has_type, bbox_type, has_bbox, has_coords) ==
  [corrupt |-> corrupt, has_class |-> has_class, C |-> c,
   has_score |-> has_score, P |-> p,
   has_type |-> has_type, bbox_type |-> bbox_type, has_bbox |-> has_bbox,
   has_left |-> has_coords, X |-> 1, has_top |-> has_coords, Y |-> 2,
   has_right |-> has_coords, x |-> 3, has_bottom |-> has_coords, y |-> 0 - 4]

GoodElem(c) == Elem(FALSE, TRUE, c, TRUE, 9, TRUE, 1, TRUE, TRUE)
SkippedElem == Elem(FALSE, TRUE, 0, TRUE, 9, FALSE, 0, FALSE, FALSE)

Payload(b64_ok, root_ok, has_perception, has_list, elems) ==
  [empty |-> FALSE, b64_ok |-> b64_ok, root_ok |-> root_ok,
   has_perception |-> has_perception, has_list |-> has_list, elems |-> elems]

\* Elements of a detection vector: a box of type 1 with none of the other
\* fields present, a box type that is not 1, no box table, and a table
\* whose offsets do not resolve.
DefaultsElem == Elem(FALSE, FALSE, 7, FALSE, 9, TRUE, 1, TRUE, FALSE)
OtherTypeElem == Elem(FALSE, TRUE, 0, TRUE, 9, TRUE, 2, TRUE, TRUE)
NoBoxElem == Elem(FALSE, TRUE, 0, TRUE, 9, TRUE, 1, FALSE, FALSE)
CorruptElem == Elem(TRUE, TRUE, 0, TRUE, 9, TRUE, 1, TRUE, TRUE)
ElemKinds ==
  {GoodElem(0), GoodElem(1), DefaultsElem, SkippedElem, OtherTypeElem,
   NoBoxElem, CorruptElem}

PayloadPerson ==
  Payload(TRUE, TRUE, TRUE, TRUE,
          <<SkippedElem, GoodElem(0), GoodElem(0), GoodElem(1)>>)
PayloadBroken == Payload(TRUE, FALSE, TRUE, TRUE, <<>>)
PayloadNone == [Payload(TRUE, TRUE, TRUE, TRUE, <<>>) EXCEPT !.empty = TRUE]

\* Payloads of a request with one payload: every vector of up to MaxElems
\* elements in a buffer whose tables resolve, and text that is not base64,
\* a buffer whose root table does not resolve, one without the Perception
\* field and one without the detection list.
SeqsUpTo(S, n) == UNION {[1 .. k -> S] : k \in 0 .. n}
DecodePayloads ==
  {Payload(TRUE, TRUE, TRUE, TRUE, elems) : elems \in SeqsUpTo(ElemKinds, MaxElems)}
  \cup {Payload(FALSE, TRUE, TRUE, TRUE, <<GoodElem(0)>>),
         Payload(TRUE, FALSE, TRUE, TRUE, <<GoodElem(0)>>),
         Payload(TRUE, TRUE, FALSE, TRUE, <<GoodElem(0)>>),
         Payload(TRUE, TRUE, TRUE, FALSE, <<GoodElem(0)>>)}

\* The result of a call: whether it raised and, if not, the value returned.
Returned(value) == [raises |-> FALSE, value |-> value]
Raised == [raises |-> TRUE, value |-> <<>>]

\* decode_base64 logs and re-raises the error of b64decode.
decode_base64(payload) == IF payload.b64_ok THEN Returned(payload) ELSE Raised

\* The loop body reading every field whether the table has it or not
DecodeElemUnchecked(e) ==
  IF e.corrupt THEN <<>>
  ELSE IF e.bbox_type = 1 /\ e.has_bbox
       THEN <<[is_dict |-> TRUE, has_C |-> TRUE, C |-> e.C, P |-> e.P,
               X |-> e.X, Y |-> e.Y, x |-> e.x, y |-> e.y]>>
       ELSE <<>>

\* The loop body appending a record for every box type, with or without a
\* box table
DecodeElemLenient(e) ==
  IF e.corrupt THEN <<>>
  ELSE <<[is_dict |-> TRUE, has_C |-> TRUE,
          C |-> IF e.has_class THEN e.C ELSE 0,
          P |-> IF e.has_score THEN e.P ELSE 0,
          X |-> IF e.has_left THEN e.X ELSE 0,
          Y |-> IF e.has_top THEN e.Y ELSE 0,
          x |-> IF e.has_right THEN e.x ELSE 0,
          y |-> IF e.has_bottom THEN e.y ELSE 0]>>

\* The body of the loop of deserialize_flatbuffers for one element: absent
\* fields keep their defaults, a record is appended for bounding box type 1
\* with a box table only, an exception is caught and the element left out.
DecodeElem(e) ==
  LET class_id == IF e.has_class THEN e.C ELSE 0
      score == IF e.has_score THEN e.P ELSE 0
      bbox_type == IF e.has_type THEN e.bbox_type ELSE 0
  IN IF e.corrupt THEN <<>>
     ELSE IF bbox_type = 1 /\ e.has_bbox
          THEN <<[is_dict |-> TRUE, has_C |-> TRUE, C |-> class_id, P |-> score,
                  X |-> IF e.has_left THEN e.X ELSE 0,
                  Y |-> IF e.has_top THEN e.Y ELSE 0,
                  x |-> IF e.has_right THEN e.x ELSE 0,
                  y |-> IF e.has_bottom THEN e.y ELSE 0]>>
          ELSE <<>>

RECURSIVE DecodeElems(_)
DecodeElems(elems) ==
  IF elems = <<>> THEN <<>>
  ELSE DecodeElem(Head(elems)) \o DecodeElems(Tail(elems))

\* deserialize_flatbuffers: an exception of the walk to the tables is caught
\* and answered by [].
deserialize_flatbuffers(buf) ==
  IF ~buf.root_ok THEN Returned(<<>>)
  ELSE IF ~buf.has_perception \/ ~buf.has_list THEN Returned(<<>>)
  ELSE Returned(DecodeElems(buf.elems))

\* get_deserialize_data without its try / except
get_deserialize_data_unguarded(payload) ==
  IF decode_base64(payload).raises THEN Raised
  ELSE deserialize_flatbuffers(decode_base64(payload).value)

\* get_deserialize_data: the results keyed "0", "1", ... by enumerate (the
\* position in the sequence); any exception is caught and answered by {}.
get_deserialize_data(payload) ==
  IF decode_base64(payload).raises THEN Returned(<<>>)
  ELSE IF deserialize_flatbuffers(decode_base64(payload).value).raises
       THEN Returned(<<>>)
       ELSE Returned(deserialize_flatbuffers(decode_base64(payload).value).value)

\* ======================================================= ingestion endpoint
Bodies ==
  {[kind |-> "invalid_json", dets |-> <<>>, inferences |-> <<>>]}
  \cup {[kind |-> "predecoded", dets |-> d, inferences |-> <<>>] :
          d \in PreDecoded}
  \cup {[kind |-> "inferences", dets |-> <<>>, inferences |-> p] :
          p \in {<<>>, <<PayloadNone, PayloadPerson>>,
                 <<PayloadBroken, PayloadPerson>>}}

\* The suffix scan of update_inference_result over id_to_index.keys().
RECURSIVE SuffixScan(_, _)
SuffixScan(d, raw) ==
  IF d = <<>> THEN raw
  ELSE IF EndsWith(Head(d).k, raw) THEN Head(d).k
       ELSE SuffixScan(Tail(d), raw)

ResolveId(d, raw) ==
  IF StartsWith(raw, AidPrefix) THEN raw ELSE SuffixScan(d, raw)

\* DeviceManager.process_inference_data falling back to the first slot for
\* a device id the index does not have
ManagerProcessDefault(devs, d, device_id, dets, inferences, t) ==
  LET index == IF DictHas(d, device_id) THEN DictGet(d, device_id) ELSE 0
  IN [devs EXCEPT ![index] =
        process_inference_data(devs[index], device_id, dets,
                                 inferences, t)]

\* DeviceManager.process_inference_data applied to every bound slot
ManagerProcessAll(devs, d, device_id, dets, inferences, t) ==
  IF DictHas(d, device_id)
  THEN [i \in Slots |->
          IF devs[i].device_id # NoId
          THEN process_inference_data(devs[i], device_id, dets,
                                 inferences, t)
          ELSE devs[i]]
  ELSE devs

\* DeviceManager.process_inference_data: the registry after the call.
ManagerProcess(devs, d, device_id, dets, inferences, t) ==
  IF DictHas(d, device_id)
  THEN [devs EXCEPT ![DictGet(d, device_id)] =
          process_inference_data(devs[DictGet(d, device_id)], device_id, dets,
                                 inferences, t)]
  ELSE devs

ManagerRaises(d, device_id, dets) == DictHas(d, device_id) /\ Raises(dets)

\* The loop over the Inferences list: an empty "O" is passed over, and so is
\* a payload whose decoding raises (except ... continue); the list from the
\* first payload on that is decoded and handed to the registry (break).
RECURSIVE DropSkipped(_)
DropSkipped(inferences) ==
  IF inferences = <<>> THEN <<>>
  ELSE IF Head(inferences).empty \/ get_deserialize_data(Head(inferences)).raises
       THEN DropSkipped(Tail(inferences))
       ELSE inferences

\* The handler of PUT /meta/{device_id} on registry devs with index d at
\* time t: the registry it leaves and the status it answers.
HandleMeta(devs, d, raw, body, t) ==
  LET device_id == ResolveId(d, raw)
      used == DropSkipped(body.inferences)
  IN
  CASE body.kind = "invalid_json" ->
         [devices |-> devs, status |-> "error"]
    [] body.kind = "predecoded" ->
         [devices |-> ManagerProcess(devs, d, device_id, body.dets,
                                     body.inferences, t),
          status |-> IF ManagerRaises(d, device_id, body.dets)
                     THEN "error" ELSE "success"]
    [] OTHER ->
         [devices |-> IF used = <<>> THEN devs
                      ELSE ManagerProcess(devs, d, device_id,
                                          get_deserialize_data(Head(used)).value,
                                          body.inferences, t),
          status |-> "success"]

\* PUT /meta/{device_id}: the body is read first (the only await), the rest
\* of the handler runs without suspension.
update_inference_result(raw, body) ==
  /\ devices' = HandleMeta(devices, id_to_index, raw, body, now).devices
  /\ meta_status' = HandleMeta(devices, id_to_index, raw, body, now).status
  /\ UNCHANGED <<now, vacant_time_minutes, id_to_index, hubvars, taskvars, ls_pc,
                 ws_msg, device_out, adminvars>>

Ingest == \E raw \in RawIds, body \in Bodies : update_inference_result(raw, body)

\* Requests for the first device with one payload.
BodyOf(payload) ==
  [kind |-> "inferences", dets |-> <<>>, inferences |-> <<payload>>]
IngestDecode == update_inference_result(IdA, BodyOf(device_out))

\* Requests with a well-formed pre-decoded detection set only.
BodiesBrief == {b \in Bodies : b.kind = "predecoded" /\ ~Raises(b.dets)}
IngestBrief ==
  \E raw \in RawIds, body \in BodiesBrief : update_inference_result(raw, body)

\* ====================================================== inference commands
\* DeviceManager.start_inference / stop_inference after the vendor call has
\* returned (the await precedes every read and write of the registry): the
\* flag of the slot the index gives for device_id is set on "SUCCESS" only;
\* an exception of the call is caught.
\* What one call leaves in the slots and returns: the exception of the
\* vendor call is caught, so the caller gets a result in every case.
inference_command_eager(devs, ix, device_id, result, active) ==
  [devices |-> IF DictHas(ix, device_id)
               THEN [devs EXCEPT ![DictGet(ix, device_id)].inference_active = active]
               ELSE devs,
   success |-> result = "SUCCESS",
   raised |-> FALSE]

inference_command(devs, ix, device_id, result, active) ==
  [devices |-> IF result = "SUCCESS" /\ DictHas(ix, device_id)
               THEN [devs EXCEPT ![DictGet(ix, device_id)].inference_active = active]
               ELSE devs,
   success |-> result = "SUCCESS",
   raised |-> FALSE]

\* is_inference_active
is_inference_active(devs, ix, device_id) ==
  DictHas(ix, device_id) /\ devs[DictGet(ix, device_id)].inference_active

set_inference_active(device_id, result, active) ==
  /\ devices' = inference_command(devices, id_to_index, device_id, result, active).devices
  /\ UNCHANGED <<now, vacant_time_minutes, id_to_index, hubvars, taskvars,
                 ls_pc, meta_status, ws_msg, device_out, adminvars>>

start_inference(device_id, result) == set_inference_active(device_id, result, TRUE)
stop_inference(device_id, result) == set_inference_active(device_id, result, FALSE)

StartInference ==
  \E device_id \in DeviceIds, result \in CommandResults :
     start_inference(device_id, result)
StopInference ==
  \E device_id \in DeviceIds, result \in CommandResults :
     stop_inference(device_id, result)

\* ====================================================== command parameters
\* The name of the parameter file of a device: the part of the id after its
\* last "-", without leading zeros and without one leading "a", between
\* "SHIBU_Mtg_Room_" and ".json".
RECURSIVE LastSegment(_)
LastSegment(s) ==
  IF \E n \in 1 .. Len(s) : s[n] = "-"
  THEN LastSegment(Tail(s))
  ELSE s

RECURSIVE LStripZeros(_)
LStripZeros(s) ==
  IF s # <<>> /\ Head(s) = "0" THEN LStripZeros(Tail(s)) ELSE s

FileNameOf(device_id) ==
  LET room_number == LStripZeros(LastSegment(device_id))
  IN <<"SHIBU_Mtg_Room_">>
       \o (IF room_number # <<>> /\ Head(room_number) = "a"
           THEN Tail(room_number) ELSE room_number)
       \o <<".json">>

OtherFile == <<"Other.json">>

\* Answers of the vendor to the request for the list of parameter files:
\* no file, the device's file with and without the device bound to it, and
\* the device bound to another file beside its own.
VendorLists ==
  {<<>>,
   <<[file_name |-> FileNameOf(IdA), device_ids |-> {IdA}]>>,
   <<[file_name |-> FileNameOf(IdA), device_ids |-> {}]>>,
   <<[file_name |-> OtherFile, device_ids |-> {IdA}]>>}

\* Outcomes of get_command_parameter_files: the list, or an exception.
ListOutcomes ==
  {[ok |-> FALSE, parameter_list |-> <<>>]}
  \cup {[ok |-> TRUE, parameter_list |-> l] : l \in VendorLists}

\* Outcomes of the unbind, update / register and bind calls: the client
\* returns the answer of an HTTP 200 and raises for everything else.
CallOutcomes == {"ok", "raise"}
ApplyOutcomes ==
  [list : ListOutcomes, unbind : CallOutcomes, file : CallOutcomes,
   bind : CallOutcomes]

\* time.time() counts from 1970, so a timestamp of 0 is older than cache_ttl
\* at any time.
CacheExpired(c, t) ==
  \/ c.cache_timestamp = 0
  \/ t - c.cache_timestamp > cache_ttl
  \/ ~c.parameter_files_cache.present

\* _update_parameter_files_cache
update_parameter_files_cache(c, t, outcome) ==
  IF CacheExpired(c, t)
  THEN IF outcome.ok
       THEN [c EXCEPT !.parameter_files_cache =
                        [present |-> TRUE,
                         parameter_list |-> outcome.parameter_list],
                      !.cache_timestamp = t]
       ELSE IF ~c.parameter_files_cache.present
            THEN [c EXCEPT !.parameter_files_cache =
                             [present |-> TRUE, parameter_list |-> <<>>]]
            ELSE c
  ELSE c

\* get_device_parameters: the parameters found or the defaults are kept for
\* the device either way.
get_device_parameters(c, device_id, t, outcome) ==
  [update_parameter_files_cache(c, t, outcome) EXCEPT
     !.device_parameters = @ \cup {device_id}]

FileExists(parameter_list, file_name) ==
  \E n \in 1 .. Len(parameter_list) : parameter_list[n].file_name = file_name

\* The file the loop of apply_parameters leaves in bound_file: the last one
\* of the list that has the device among its device_ids, <<>> for None.
BoundFile(parameter_list, device_id) ==
  LET at == {n \in 1 .. Len(parameter_list) :
               device_id \in parameter_list[n].device_ids}
  IN IF at = {} THEN <<>>
     ELSE parameter_list[CHOOSE n \in at : \A m \in at : m <= n].file_name

Call(op, file_name, outcome) ==
  [op |-> op, file_name |-> file_name, outcome |-> outcome]

\* apply_parameters giving up when the unbind call raises
apply_parameters_strict(c, device_id, has_commands, t, out) ==
  LET c1 == update_parameter_files_cache(c, t, out.list)
      parameter_list == c1.parameter_files_cache.parameter_list
      file_name == FileNameOf(device_id)
      bound_file == BoundFile(parameter_list, device_id)
      unbind == IF bound_file # <<>>
                THEN <<Call("unbind", bound_file, out.unbind)>> ELSE <<>>
      file == <<Call(IF FileExists(parameter_list, file_name)
                     THEN "update" ELSE "register", file_name, out.file)>>
      bind == <<Call("bind", file_name, out.bind)>>
  IN
  IF ~has_commands THEN [cpm |-> c, calls |-> <<>>, success |-> FALSE]
  ELSE IF bound_file # <<>> /\ out.unbind = "raise"
  THEN [cpm |-> c1, calls |-> unbind, success |-> FALSE]
  ELSE IF out.file = "raise"
  THEN [cpm |-> c1, calls |-> unbind \o file, success |-> FALSE]
  ELSE IF out.bind = "raise"
  THEN [cpm |-> c1, calls |-> unbind \o file \o bind, success |-> FALSE]
  ELSE [cpm |-> [c1 EXCEPT !.cache_timestamp = 0,
                           !.device_parameters = @ \ {device_id}],
        calls |-> unbind \o file \o bind, success |-> TRUE]

\* apply_parameters: the manager it leaves, the unbind / update / register /
\* bind calls it makes, in their order and with their outcomes, and the
\* success it reports.  The calls of one run are taken together.
apply_parameters(c, device_id, has_commands, t, out) ==
  LET c1 == update_parameter_files_cache(c, t, out.list)
      parameter_list == c1.parameter_files_cache.parameter_list
      file_name == FileNameOf(device_id)
      bound_file == BoundFile(parameter_list, device_id)
      unbind == IF bound_file # <<>>
                THEN <<Call("unbind", bound_file, out.unbind)>> ELSE <<>>
      file == <<Call(IF FileExists(parameter_list, file_name)
                     THEN "update" ELSE "register", file_name, out.file)>>
      bind == <<Call("bind", file_name, out.bind)>>
  IN
  IF ~has_commands THEN [cpm |-> c, calls |-> <<>>, success |-> FALSE]
  ELSE IF out.file = "raise"
  THEN [cpm |-> c1, calls |-> unbind \o file, success |-> FALSE]
  ELSE IF out.bind = "raise"
  THEN [cpm |-> c1, calls |-> unbind \o file \o bind, success |-> FALSE]
  ELSE [cpm |-> [c1 EXCEPT !.cache_timestamp = 0,
                           !.device_parameters = @ \ {device_id}],
        calls |-> unbind \o file \o bind, success |-> TRUE]

\* What update_device_background leaves in the slots.
WithBackground(devs, index, background_path) ==
  IF 0 <= index /\ index < NumSlots
  THEN [devs EXCEPT ![index].background_image = background_path]
  ELSE devs

\* ===================================================== guarded operations
\* fetch_device_image, get_command_parameters and apply_command_parameters:
\* one request at a time is followed from its start to its return.  Each
\* action is the run of the handler between two of its awaits.
Handlers == {"fetch_image", "get_params", "apply_params"}
RequestIds == {IdA}

\* What happens to the image after the vendor call: it arrives and is
\* stored, the call fails, the image is empty, or decoding or writing it
\* raises.
ImageOutcomes == {"ok", "fetch_failed", "empty_image", "save_failed"}

Respond(r, success) == [r EXCEPT !.pc = "returned", !.success = success]

\* The start of a request up to its first vendor call.  fetch_device_image
\* takes the device id of the slot from the settings file; without an entry
\* or with an empty id it returns a failure at once.
RequestBegin ==
  /\ req.pc = "idle"
  /\ \E handler \in Handlers, index \in 0 .. NumSlots - 1, id \in RequestIds :
       LET listed == index + 1 <= Len(settings.devices)
           device_id == IF handler = "fetch_image"
                        THEN IF listed THEN settings.devices[index + 1].device_id
                             ELSE NoId
                        ELSE id
           active == is_inference_active(devices, id_to_index, device_id)
           r == [NoRequest EXCEPT !.handler = handler, !.device_id = device_id,
                                  !.index = IF handler = "fetch_image"
                                            THEN index ELSE 0,
                                  !.inference_active = active,
                                  !.settings = IF handler = "fetch_image"
                                               THEN settings ELSE Unobserved]
       IN
       /\ handler # "fetch_image" => index = 0
       /\ handler = "fetch_image" => id = IdA
       /\ req' = IF device_id = NoId THEN Respond(r, FALSE)
                 ELSE [r EXCEPT !.pc = IF active THEN "stop" ELSE "operate"]
  /\ UNCHANGED <<regvars, hubvars, taskvars, ls_pc, meta_status, ws_msg,
                 device_out, cpm, settings, set_req>>

\* stop_inference returns; its result is not looked at.
ReqStopReturn ==
  /\ req.pc = "stop"
  /\ \E result \in CommandResults :
       /\ devices' = inference_command(devices, id_to_index, req.device_id,
                                       result, FALSE).devices
       /\ req' = [req EXCEPT !.pc = "operate", !.stopped = TRUE]
  /\ UNCHANGED <<now, vacant_time_minutes, id_to_index, hubvars, taskvars,
                 ls_pc, meta_status, ws_msg, device_out, cpm, settings, set_req>>

\* Where the handler goes after its operation: to the restart when
\* inference was active and the handler restarts on this path, else to its
\* return.
AfterOperation(r, success, restarts) ==
  IF r.inference_active /\ restarts
  THEN [r EXCEPT !.pc = "restart", !.operated = TRUE, !.success = success]
  ELSE [Respond(r, success) EXCEPT !.operated = TRUE]

FetchImageReturn(outcome) ==
  /\ req.handler = "fetch_image"
  /\ req' = AfterOperation(req, outcome = "ok",
                           outcome \in {"ok", "fetch_failed"})
  /\ IF outcome = "ok"
     THEN \E path \in Backgrounds :
            /\ settings' = [req.settings EXCEPT
                              !.devices[req.index + 1].background_image = path]
            /\ devices' = WithBackground(devices, req.index, path)
     ELSE UNCHANGED <<settings, devices>>
  /\ UNCHANGED cpm

GetParamsReturn(outcome) ==
  /\ req.handler = "get_params"
  /\ cpm' = get_device_parameters(cpm, req.device_id, now, outcome)
  /\ req' = AfterOperation(req, TRUE, TRUE)
  /\ UNCHANGED <<settings, devices>>

ApplyParamsReturn(has_commands, out) ==
  LET result == apply_parameters(cpm, req.device_id, has_commands, now, out)
  IN
  /\ req.handler = "apply_params"
  /\ cpm' = result.cpm
  /\ req' = [AfterOperation(req, result.success, result.success)
               EXCEPT !.calls = result.calls]
  /\ UNCHANGED <<settings, devices>>

\* The operation of the handler, from the end of the wait after the stop to
\* the restart or the return.
ReqOperateReturn ==
  /\ req.pc = "operate"
  /\ \/ \E outcome \in ImageOutcomes : FetchImageReturn(outcome)
     \/ \E outcome \in ListOutcomes : GetParamsReturn(outcome)
     \/ \E has_commands \in BOOLEAN, out \in ApplyOutcomes :
          ApplyParamsReturn(has_commands, out)
  /\ UNCHANGED <<now, vacant_time_minutes, id_to_index, hubvars, taskvars,
                 ls_pc, meta_status, ws_msg, device_out, set_req>>

\* start_inference returns and the handler returns its response.
ReqRestartReturn ==
  /\ req.pc = "restart"
  /\ \E result \in CommandResults :
       /\ devices' = inference_command(devices, id_to_index, req.device_id,
                                       result, TRUE).devices
       /\ req' = [req EXCEPT !.pc = "returned", !.restarted = TRUE]
  /\ UNCHANGED <<now, vacant_time_minutes, id_to_index, hubvars, taskvars,
                 ls_pc, meta_status, ws_msg, device_out, cpm, settings, set_req>>

\* The response has gone out; the next request may come.
ReqDone ==
  /\ req.pc = "returned"
  /\ req' = NoRequest
  /\ UNCHANGED <<regvars, hubvars, taskvars, ls_pc, meta_status, ws_msg,
                 device_out, cpm, settings, set_req>>

\* ================================================================== rebind
\* info dictionaries: with a device_id key only, and with a display_name too
IdInfos ==
  {[has_device_id |-> TRUE, device_id |-> d, has_display_name |-> FALSE,
    display_name |-> ""] : d \in DeviceIds \cup {NoId}}
Infos ==
  IdInfos
  \cup {[has_device_id |-> h, device_id |-> IdB, has_display_name |-> TRUE,
          display_name |-> "R"] : h \in BOOLEAN}

\* update_device_info without the deletion of the old index entry
update_device_info_keeping(index, info) ==
  LET old_device_id == devices[index].device_id
      new_device_id == IF info.has_device_id THEN info.device_id
                       ELSE old_device_id
      inserted == IF new_device_id # NoId
                  THEN DictPut(id_to_index, new_device_id, index)
                  ELSE id_to_index
  IN
  /\ IF 0 <= index /\ index < NumSlots
     THEN /\ id_to_index' = IF old_device_id # new_device_id THEN inserted
                            ELSE id_to_index
          /\ devices' = [devices EXCEPT
                ![index].device_id = new_device_id,
                ![index].display_name =
                   IF info.has_display_name THEN info.display_name
                   ELSE devices[index].display_name]
     ELSE UNCHANGED <<devices, id_to_index>>
  /\ UNCHANGED <<now, vacant_time_minutes, hubvars, taskvars, ls_pc, meta_status, ws_msg, device_out, adminvars>>

\* update_device_info putting a fresh DeviceState in a slot that gets another
\* device id
update_device_info_fresh(index, info) ==
  LET old_device_id == devices[index].device_id
      new_device_id == IF info.has_device_id THEN info.device_id
                       ELSE old_device_id
      removed == IF DictHas(id_to_index, old_device_id)
                 THEN DictDel(id_to_index, old_device_id) ELSE id_to_index
      inserted == IF new_device_id # NoId
                  THEN DictPut(removed, new_device_id, index) ELSE removed
      display_name == IF info.has_display_name THEN info.display_name
                      ELSE devices[index].display_name
  IN
  /\ IF 0 <= index /\ index < NumSlots
     THEN /\ id_to_index' = IF old_device_id # new_device_id THEN inserted
                            ELSE id_to_index
          /\ devices' = [devices EXCEPT
                ![index] = IF old_device_id # new_device_id
                           THEN NewDeviceState(new_device_id, display_name)
                           ELSE [@ EXCEPT !.display_name = display_name]]
     ELSE UNCHANGED <<devices, id_to_index>>
  /\ UNCHANGED <<now, vacant_time_minutes, hubvars, taskvars, ls_pc, meta_status, ws_msg, device_out, adminvars>>

\* What update_device_info leaves in the slots and in the reverse index.
DeviceInfoSet(devs, ix, index, info) ==
  LET old_device_id == devs[index].device_id
      new_device_id == IF info.has_device_id THEN info.device_id
                       ELSE old_device_id
      removed == IF DictHas(ix, old_device_id)
                 THEN DictDel(ix, old_device_id) ELSE ix
      inserted == IF new_device_id # NoId
                  THEN DictPut(removed, new_device_id, index) ELSE removed
  IN
  IF 0 <= index /\ index < NumSlots
  THEN [id_to_index |-> IF old_device_id # new_device_id THEN inserted ELSE ix,
        devices |-> [devs EXCEPT
                       ![index].device_id = new_device_id,
                       ![index].display_name =
                          IF info.has_display_name THEN info.display_name
                          ELSE devs[index].display_name]]
  ELSE [id_to_index |-> ix, devices |-> devs]

update_device_info(index, info) ==
  /\ devices' = DeviceInfoSet(devices, id_to_index, index, info).devices
  /\ id_to_index' = DeviceInfoSet(devices, id_to_index, index, info).id_to_index
  /\ UNCHANGED <<now, vacant_time_minutes, hubvars, taskvars, ls_pc, meta_status, ws_msg, device_out, adminvars>>

\* DeviceManager.update_device_background, called by the upload handlers
\* after the file is written.
update_device_background(index, background_path) ==
  /\ devices' = WithBackground(devices, index, background_path)
  /\ UNCHANGED <<now, vacant_time_minutes, id_to_index, hubvars, taskvars,
                 ls_pc, meta_status, ws_msg, device_out, adminvars>>

Background ==
  \E index \in RebindIndexes, background_path \in Backgrounds :
    update_device_background(index, background_path)

Rebind == \E index \in RebindIndexes, info \in Infos : update_device_info(index, info)
RebindFirst == \E info \in IdInfos : update_device_info(0, info)
RebindFirstInfo == \E info \in Infos : update_device_info(0, info)
RebindId == \E index \in RebindIndexes, info \in IdInfos : update_device_info(index, info)

\* ======================================================== settings requests
\* Values of "vacant_time_minutes" in the body of POST /api/settings/common:
\* JSON integers, a JSON number with a fraction (7.5) and a text that is not
\* a number.
CommonValues ==
  {[kind |-> "int", whole |-> n, frac |-> 0] : n \in {0, 1, 30, 31}}
  \cup {[kind |-> "float", whole |-> 7, frac |-> 5],
        [kind |-> "text", whole |-> 0, frac |-> 0]}

CommonBodies ==
  {[has_vacant |-> FALSE, value |-> [kind |-> "int", whole |-> 0, frac |-> 0]]}
  \cup {[has_vacant |-> TRUE, value |-> v] : v \in CommonValues}

\* int(): a number is cut to its whole part, a text that is not a number
\* raises ValueError.
IntOf(value) == [raises |-> value.kind = "text", value |-> value.whole]

\* A request ends with an unhandled exception before it has written
\* anything: nothing is left of it.
RequestRaises == UNCHANGED vars

\* update_common_settings from the return of load_settings to the call of
\* save_settings.
CommonLoadReturn(r, body) ==
  LET minutes == IntOf(body.value) IN
  /\ set_req[r].pc = "idle"
  /\ IF body.has_vacant /\ minutes.raises
     THEN RequestRaises
     ELSE LET accepted == /\ body.has_vacant
                          /\ 1 <= minutes.value /\ minutes.value <= 30
          IN
          /\ vacant_time_minutes' = IF accepted THEN minutes.value
                                    ELSE vacant_time_minutes
          /\ set_req' = [set_req EXCEPT ![r] =
               [pc |-> "saving", kind |-> "common", index |-> 0,
                current_settings |->
                  IF accepted
                  THEN [settings EXCEPT !.vacant_time_minutes = minutes.value]
                  ELSE settings]]
          /\ UNCHANGED <<now, devices, id_to_index, hubvars, taskvars, ls_pc,
                         meta_status, ws_msg, device_out, req, cpm, settings>>

\* Slots addressed by POST /api/settings/device/{index}, and bodies of the
\* request: a device id, or a display name.
SettingsIndexes == {0, 1}
SettingsBodies ==
  {[has_device_id |-> TRUE, device_id |-> IdB, has_display_name |-> FALSE,
    display_name |-> ""],
   [has_device_id |-> FALSE, device_id |-> NoId, has_display_name |-> TRUE,
    display_name |-> "R"]}

\* update_device_settings from the return of load_settings to the call of
\* save_settings: the entry of the file, changed by the body, goes to the
\* registry whole.  An index the device list of the file does not have
\* raises IndexError.
DeviceLoadReturn(r, index, body) ==
  /\ set_req[r].pc = "idle"
  /\ IF index + 1 > Len(settings.devices)
     THEN RequestRaises
     ELSE LET entry == [settings.devices[index + 1] EXCEPT
                          !.display_name = IF body.has_display_name
                                           THEN body.display_name ELSE @,
                          !.device_id = IF body.has_device_id
                                        THEN body.device_id ELSE @]
              info == [has_device_id |-> TRUE, device_id |-> entry.device_id,
                       has_display_name |-> TRUE,
                       display_name |-> entry.display_name]
              set == DeviceInfoSet(devices, id_to_index, index, info)
          IN
          /\ devices' = set.devices
          /\ id_to_index' = set.id_to_index
          /\ set_req' = [set_req EXCEPT ![r] =
               [pc |-> "saving", kind |-> "device", index |-> index,
                current_settings |->
                  [settings EXCEPT !.devices[index + 1] = entry]]]
          /\ UNCHANGED <<now, vacant_time_minutes, hubvars, taskvars, ls_pc,
                         meta_status, ws_msg, device_out, req, cpm, settings>>

\* save_settings writes the file from the dictionary the request loaded and
\* changed, and the request returns.  The write is taken to succeed.
SaveReturn(r) ==
  /\ set_req[r].pc = "saving"
  /\ settings' = set_req[r].current_settings
  /\ set_req' = [set_req EXCEPT ![r] = IdleSettings]
  /\ UNCHANGED <<regvars, hubvars, taskvars, ls_pc, meta_status, ws_msg,
                 device_out, req, cpm>>

UpdateCommonSettings ==
  \E r \in SettingsRequests, body \in CommonBodies : CommonLoadReturn(r, body)
UpdateDeviceSettings ==
  \E r \in SettingsRequests, index \in SettingsIndexes, body \in SettingsBodies :
    DeviceLoadReturn(r, index, body)
SettingsSaved == \E r \in SettingsRequests : SaveReturn(r)

\* =================================================================== clock
\* The clock is followed in steps of one minute.
Tick ==
  /\ now + SecondsPerMinute <= StartTime + MaxElapsed
  /\ now' = now + SecondsPerMinute
  /\ UNCHANGED <<vacant_time_minutes, devices, id_to_index, hubvars, taskvars,
                 ls_pc, meta_status, ws_msg, device_out, adminvars>>

\* ============================================== WebSocketConnectionManager
\* A set iterator is invalidated by a change of the set: its next step
\* raises RuntimeError when the size differs from the size it was created
\* with, and when the size is the same again (one element removed, another
\* added) it goes on over whatever the hash table holds from its position on,
\* which is any subset of the current elements.
IterAfterMutation(act) ==
  IF bc_pc = "send"
  THEN IF Cardinality(act) = it_used THEN it_rest' \in SUBSET act
       ELSE it_rest' = {}
  ELSE UNCHANGED it_rest

\* WebSocketConnectionManager.disconnect: set.remove raises KeyError for an
\* element the set does not have.
set_remove(set, c) == [set |-> set \ {c}, raises |-> c \notin set]

\* websocket_endpoint up to its first receive: accept, then register.
connect(c) ==
  /\ ws[c] = "new"
  /\ active_connections' = active_connections \cup {c}
  /\ ws' = [ws EXCEPT ![c] = "open"]
  /\ IterAfterMutation(active_connections')
  /\ UNCHANGED <<regvars, link, sent, bc_pc, upd_i, fetch_id, update_data,
                 bc_cur, it_used, disconnected_clients, push_conns, ls_pc,
                 meta_status, ws_msg, device_out, adminvars>>

\* The viewer goes away: later sends to it raise, its handler's receive
\* raises WebSocketDisconnect.
LinkBreak(c) ==
  /\ ws[c] = "open"
  /\ link[c] # "broken"
  /\ link' = [link EXCEPT ![c] = "broken"]
  /\ UNCHANGED <<regvars, active_connections, ws, sent, taskvars, ls_pc,
                 meta_status, ws_msg, device_out, adminvars>>

\* The viewer stops reading: a send to it does not complete.
LinkStall(c) ==
  /\ ws[c] = "open"
  /\ link[c] = "ok"
  /\ link' = [link EXCEPT ![c] = "stalled"]
  /\ UNCHANGED <<regvars, active_connections, ws, sent, taskvars, ls_pc,
                 meta_status, ws_msg, device_out, adminvars>>

\* websocket_endpoint's except branches: ws_manager.disconnect(websocket).
\* set.remove raises KeyError when the push has removed the connection
\* already; the handler ends either way.
disconnect(c) ==
  /\ ws[c] = "open"
  /\ link[c] = "broken"
  /\ active_connections' = set_remove(active_connections, c).set
  /\ ws' = [ws EXCEPT ![c] = "closed"]
  /\ IterAfterMutation(active_connections')
  /\ UNCHANGED <<regvars, link, sent, bc_pc, upd_i, fetch_id, update_data,
                 bc_cur, it_used, disconnected_clients, push_conns, ls_pc,
                 meta_status, ws_msg, device_out, adminvars>>

\* websocket_endpoint from receive_text returning a message to its next
\* receive_text, or to its end: "ping" is answered by pong; a message of
\* another type and one json.loads rejects (JSONDecodeError is caught) are
\* passed over; for JSON that is not an object command.get raises
\* AttributeError, which the outer except Exception answers by
\* ws_manager.disconnect(websocket), and the handler returns.
receive_text(c, message) ==
  /\ ws[c] = "open"
  /\ link[c] = "ok"
  /\ IF message = "not_object"
     THEN /\ active_connections' = active_connections \ {c}
          /\ ws' = [ws EXCEPT ![c] = "closed"]
          /\ IterAfterMutation(active_connections')
     ELSE UNCHANGED <<active_connections, ws, it_rest>>
  /\ ws_msg' = [ws_msg EXCEPT ![c] =
                  [message |-> message,
                   reply |-> IF message = "ping" THEN "pong" ELSE "none"]]
  /\ UNCHANGED <<regvars, link, sent, bc_pc, upd_i, fetch_id, update_data,
                 bc_cur, it_used, disconnected_clients, push_conns, ls_pc,
                 meta_status, device_out, adminvars>>

Connect == \E c \in Conns : connect(c)
Receive == \E c \in Conns, message \in InboundMessages : receive_text(c, message)
Disconnect == \E c \in Conns : disconnect(c)
ViewerGone == \E c \in Conns : LinkBreak(c)
ViewerStalls == \E c \in Conns : LinkStall(c)

\* ========================================================== update_clients
NoSlot == 0 - 1

\* update_all_devices without the test of device.device_id
NextBoundAny(devs, i) == IF i + 1 < NumSlots THEN i + 1 ELSE NoSlot

\* update_all_devices: the first slot after i that carries a device id.
NextBound(devs, i) ==
  IF \E j \in Slots : j > i /\ devs[j].device_id # NoId
  THEN CHOOSE j \in Slots :
         /\ j > i /\ devs[j].device_id # NoId
         /\ \A k \in Slots : (k > i /\ devs[k].device_id # NoId) => j <= k
  ELSE NoSlot

Snapshot(devs) ==
  [timestamp |-> now,
   devices |-> get_all_device_states(devs, vacant_time_minutes, now),
   vacant_time_minutes |-> vacant_time_minutes]

\* broadcast_json is left: its locals and the snapshot are dead.
ClearPush ==
  /\ update_data' = <<>>
  /\ bc_cur' = NoConn
  /\ it_rest' = {}
  /\ it_used' = 0
  /\ disconnected_clients' = {}
  /\ push_conns' = {}

\* update_clients without its except Exception clause: the exception ends
\* the task
RaiseEndsTask == bc_pc' = "done" /\ ClearPush

\* The task raised out of a cycle: except Exception, sleep(1.0).
RaiseInCycle == bc_pc' = "backoff" /\ ClearPush

\* broadcast_json after the iterator is exhausted: remove the connections
\* whose send raised.  disconnect raises KeyError for one that is gone, after
\* any part of the others was removed (set order).
RemoveDisconnected(disc) ==
  IF disc \subseteq active_connections
  THEN /\ active_connections' = active_connections \ disc
       /\ bc_pc' = "sleep"
       /\ ClearPush
  ELSE /\ \E R \in SUBSET (disc \cap active_connections) :
            active_connections' = active_connections \ R
       /\ RaiseInCycle

\* update_clients from the end of update_all_devices to the next suspension:
\* compose the snapshot, start broadcast_json.
ComposeAndPush(devs) ==
  /\ sent' = [c \in Conns |-> 0]
  /\ upd_i' = NoSlot
  /\ fetch_id' = NoId
  /\ IF active_connections = {}
     THEN RemoveDisconnected({})
     ELSE /\ update_data' = <<Snapshot(devs)>>
          /\ \E c \in active_connections :
               /\ bc_cur' = c
               /\ it_rest' = active_connections \ {c}
          /\ it_used' = Cardinality(active_connections)
          /\ disconnected_clients' = {}
          /\ push_conns' = active_connections
          /\ bc_pc' = "send"
          /\ UNCHANGED active_connections

\* update_all_devices from slot i on, up to the next suspension.
PollFrom(devs, i) ==
  IF NextBound(devs, i) # NoSlot
  THEN /\ bc_pc' = "fetch"
       /\ upd_i' = NextBound(devs, i)
       /\ fetch_id' = devs[NextBound(devs, i)].device_id
       /\ UNCHANGED <<update_data, sent, active_connections, bc_cur, it_rest,
                      it_used, disconnected_clients, push_conns>>
  ELSE ComposeAndPush(devs)

\* The task starts, or wakes from sleep(0.5) or from sleep(1.0), and begins
\* a cycle.
CycleStart ==
  /\ ls_pc = "running"
  /\ bc_pc \in {"init", "sleep", "backoff"}
  /\ PollFrom(devices, NoSlot)
  /\ UNCHANGED <<regvars, ws, link, ls_pc, meta_status, ws_msg, device_out, adminvars>>

\* get_connection_state returns; the facts go to the slot object the loop
\* holds, then the loop goes on.
FetchReturnWith(outcome) ==
  /\ ls_pc = "running"
  /\ bc_pc = "fetch"
  /\ LET r == get_connection_state(outcome)
         devs == [devices EXCEPT
                    ![upd_i] = update_from_api(@, r[1], r[2])]
     IN /\ devices' = devs
        /\ PollFrom(devs, upd_i)
  /\ UNCHANGED <<now, vacant_time_minutes, id_to_index, ws, link, ls_pc,
                 meta_status, ws_msg, device_out, adminvars>>

FetchReturn == \E outcome \in FetchOutcomes : FetchReturnWith(outcome)

\* send_json to bc_cur returns or raises; the for loop takes its next step.
SendReturn ==
  /\ ls_pc = "running"
  /\ bc_pc = "send"
  /\ link[bc_cur] # "stalled"
  /\ LET ok == link[bc_cur] = "ok"
         disc == IF ok THEN disconnected_clients
                 ELSE disconnected_clients \cup {bc_cur}
     IN /\ sent' = IF ok THEN [sent EXCEPT ![bc_cur] = @ + 1] ELSE sent
        /\ IF Cardinality(active_connections) # it_used
           THEN RaiseInCycle /\ UNCHANGED active_connections
           ELSE IF it_rest # {}
           THEN /\ \E c \in it_rest :
                     /\ bc_cur' = c
                     /\ it_rest' = it_rest \ {c}
                /\ disconnected_clients' = disc
                /\ UNCHANGED <<bc_pc, it_used, active_connections, update_data,
                               push_conns>>
           ELSE RemoveDisconnected(disc)
  /\ UNCHANGED <<regvars, ws, link, upd_i, fetch_id, ls_pc, meta_status, ws_msg, device_out, adminvars>>

\* CancelledError caught by the except Exception clauses around the fetch
\* and the send: the task goes to its backoff sleep instead of ending
TaskCancelSwallowed ==
  /\ ls_pc = "cancelling"
  /\ bc_pc # "done"
  /\ bc_pc' = IF bc_pc \in {"fetch", "send"} THEN "backoff" ELSE "done"
  /\ upd_i' = NoSlot
  /\ fetch_id' = NoId
  /\ ClearPush
  /\ UNCHANGED <<regvars, hubvars, ls_pc, meta_status, ws_msg, device_out, adminvars>>

\* CancelledError is delivered at the await the task is suspended in; no
\* except Exception clause on the way catches it.
TaskCancelled ==
  /\ ls_pc = "cancelling"
  /\ bc_pc # "done"
  /\ bc_pc' = "done"
  /\ upd_i' = NoSlot
  /\ fetch_id' = NoId
  /\ ClearPush
  /\ UNCHANGED <<regvars, hubvars, ls_pc, meta_status, ws_msg, device_out, adminvars>>

\* ================================================================ lifespan
\* update_task.cancel()
Shutdown ==
  /\ ls_pc = "running"
  /\ ls_pc' = "cancelling"
  /\ UNCHANGED <<regvars, hubvars, taskvars, meta_status, ws_msg, device_out, adminvars>>

\* await asyncio.gather(update_task, return_exceptions=True) returns
LifespanExit ==
  /\ ls_pc = "cancelling"
  /\ bc_pc = "done"
  /\ ls_pc' = "stopped"
  /\ UNCHANGED <<regvars, hubvars, taskvars, meta_status, ws_msg, device_out, adminvars>>

\* =========================================================== specification
\* Device lists of the settings file the registry is constructed from.
InitConfigs ==
  {<<>>, <<IdA>>, <<IdA, IdB>>, <<IdA, NoId, NoId, NoId, NoId, IdB>>}

\* DeviceManager.__init__ making one slot for every configured entry
InitDevicesPerEntry(cfg) ==
  [i \in 0 .. (IF Len(cfg) > NumSlots THEN Len(cfg) ELSE NumSlots) - 1 |->
     NewDeviceState(IF Len(cfg) > i THEN cfg[i + 1] ELSE NoId, "")]

InitDevices(cfg) ==
  [i \in Slots |-> NewDeviceState(IF Len(cfg) > i THEN cfg[i + 1] ELSE NoId, "")]

\* lifespan builds the registry from the device list of the settings file.
\* Where no handler that reads the file is present, the content of the file
\* is not followed (file_read = FALSE) and stands as Unobserved.
InitRegistryFrom(configs, file_read) ==
  \E cfg \in configs :
    /\ devices = InitDevices(cfg)
    /\ id_to_index = update_id_mapping(InitDevices(cfg))
    /\ settings = IF file_read THEN SettingsOf(cfg, 1) ELSE Unobserved

InitRegistry(file_read) == InitRegistryFrom(InitConfigs, file_read)

\* Device lists in which two ids share the suffix "a" and, in the second,
\* two entries carry the same id (the settings handlers write what they are
\* given).
SharedConfigs == {<<IdA, IdB>>, <<IdA, IdB, IdB>>}

InitRest ==
  /\ now = StartTime
  /\ vacant_time_minutes = 1
  /\ req = NoRequest
  /\ cpm = NewManager
  /\ set_req = [r \in SettingsRequests |-> IdleSettings]
  /\ active_connections = {}
  /\ ws = [c \in Conns |-> "new"]
  /\ link = [c \in Conns |-> "ok"]
  /\ sent = [c \in Conns |-> 0]
  /\ bc_pc = "init"
  /\ upd_i = NoSlot
  /\ fetch_id = NoId
  /\ update_data = <<>>
  /\ bc_cur = NoConn
  /\ it_rest = {}
  /\ it_used = 0
  /\ disconnected_clients = {}
  /\ push_conns = {}
  /\ ls_pc = "running"
  /\ meta_status = "none"
  /\ ws_msg = [c \in Conns |-> NoMessage]

InitProgram == InitRest /\ InitRegistry(FALSE)

\* The program with the settings file it was started from.
InitWithFile == InitRest /\ InitRegistry(TRUE) /\ device_out = PayloadNone

\* The first device has nothing to report.
Init == InitProgram /\ device_out = PayloadNone

\* The first device reports any one payload.
InitDecode == InitProgram /\ device_out \in DecodePayloads

Next ==
  \/ Ingest
  \/ IngestDecode
  \/ Rebind
  \/ Background
  \/ Tick
  \/ StartInference
  \/ StopInference
  \/ Connect
  \/ Receive
  \/ Disconnect
  \/ ViewerGone
  \/ ViewerStalls
  \/ CycleStart
  \/ FetchReturn
  \/ SendReturn
  \/ TaskCancelled
  \/ Shutdown
  \/ LifespanExit
  \/ RequestBegin
  \/ ReqStopReturn
  \/ ReqOperateReturn
  \/ ReqRestartReturn
  \/ ReqDone
  \/ UpdateCommonSettings
  \/ UpdateDeviceSettings
  \/ SettingsSaved

Spec == Init /\ [][Next]_vars

\* Requests to update_device_settings, two of them at most in flight at a
\* time.
NextSettings ==
  \/ UpdateDeviceSettings
  \/ SettingsSaved

SpecSettings == InitWithFile /\ [][NextSettings]_vars

\* Requests to update_common_settings, two of them at most in flight at a
\* time.
NextCommon ==
  \/ UpdateCommonSettings
  \/ SettingsSaved

SpecCommon == InitWithFile /\ [][NextCommon]_vars

\* Occupancy under ingests, the clock and changes of the threshold.
NextVacancy ==
  \/ IngestBrief
  \/ Tick
  \/ UpdateCommonSettings
  \/ SettingsSaved

SpecVacancy == InitWithFile /\ [][NextVacancy]_vars

\* The guarded operations beside the inference commands.
NextAdmin ==
  \/ StartInference
  \/ RequestBegin
  \/ ReqStopReturn
  \/ ReqOperateReturn
  \/ ReqRestartReturn
  \/ ReqDone

SpecAdmin == InitWithFile /\ [][NextAdmin]_vars

\* Rebinds and background updates of slots that ingests, the connectivity
\* refresh and the inference commands have written.
NextLabels ==
  \/ IngestBrief
  \/ RebindFirstInfo
  \/ Background
  \/ CycleStart
  \/ FetchReturn

SpecLabels == Init /\ [][NextLabels]_vars

\* Ingestion and rebinds on registries whose ids share a suffix.
InitShared ==
  InitRest /\ InitRegistryFrom(SharedConfigs, FALSE) /\ device_out = PayloadNone

NextShared ==
  \/ IngestBrief
  \/ RebindId

SpecShared == InitShared /\ [][NextShared]_vars

\* The registry under ingestion and rebinds while the clock advances.
NextRegistry ==
  \/ Ingest
  \/ RebindId
  \/ Tick

SpecRegistry == Init /\ [][NextRegistry]_vars

\* Every operation on the registry side by side: ingestion, rebinds of the
\* first slot, the connectivity refresh of the broadcast cycle (no viewer
\* connected) and the inference commands.
NextControl ==
  \/ IngestBrief
  \/ RebindFirst
  \/ Tick
  \/ CycleStart
  \/ FetchReturn
  \/ StartInference
  \/ StopInference

SpecControl == Init /\ [][NextControl]_vars

\* The decoder behind the ingestion endpoint, on every payload.
NextDecode == IngestDecode

SpecDecode == InitDecode /\ [][NextDecode]_vars

\* The bindings and the slots under rebinds, background updates and the
\* connectivity refresh.
NextBinding ==
  \/ Rebind
  \/ Background
  \/ CycleStart
  \/ FetchReturn

SpecBinding == Init /\ [][NextBinding]_vars

\* The connection manager, the broadcast task and lifespan, with the
\* registry changed by the connectivity refresh only.
NextHub ==
  \/ Connect
  \/ Disconnect
  \/ ViewerGone
  \/ ViewerStalls
  \/ CycleStart
  \/ FetchReturn
  \/ SendReturn
  \/ TaskCancelled
  \/ Shutdown
  \/ LifespanExit

SpecHub == Init /\ [][NextHub]_vars

\* The handlers of viewers that stay reachable, under inbound messages
\* beside the broadcast cycle.
NextViewer ==
  \/ Connect
  \/ Receive
  \/ CycleStart
  \/ FetchReturn
  \/ SendReturn

SpecViewer == Init /\ [][NextViewer]_vars

\* The event loop resumes the task when the operation it awaits has
\* completed, and lifespan when the task has ended.
FairHub ==
  /\ SpecHub
  /\ WF_vars(CycleStart)
  /\ WF_vars(FetchReturn)
  /\ WF_vars(SendReturn)
  /\ WF_vars(TaskCancelled)
  /\ WF_vars(LifespanExit)

\* Occupancy evaluation: one bound slot in any state an ingest history can
\* leave it in, at any sampled time and threshold, one viewer connected; the
\* broadcast cycle composes snapshots of it.
OccStart == StartTime
OccTimes == {OccStart + d : d \in {0, 59, 60, 239, 240, 299, 300, 301, 1799, 1800}}
OccThresholds == {1, DEFAULT_VACANT_TIME_MINUTES, 30}
OccData == {NoData} \cup {[present |-> TRUE, DeviceID |-> IdA,
                            DeserializedData |-> d, Inferences |-> <<>>] :
                           d \in {<<>>, <<Other>>, <<Person>>, <<Person, Person>>}}

InitOcc ==
  /\ now \in OccTimes
  /\ vacant_time_minutes \in OccThresholds
  /\ \E data \in OccData, ldt \in {0, OccStart, OccStart + 60} :
       /\ ldt <= now
       /\ PeopleDetections(data.DeserializedData) > 0 => ldt > 0
       /\ devices = [InitDevices(<<IdA>>) EXCEPT
                       ![0].last_inference_data = data,
                       ![0].people_count = PeopleDetections(data.DeserializedData),
                       ![0].last_detection_time = ldt]
  /\ id_to_index = update_id_mapping(InitDevices(<<IdA>>))
  /\ settings = Unobserved
  /\ req = NoRequest
  /\ cpm = NewManager
  /\ set_req = [r \in SettingsRequests |-> IdleSettings]
  /\ active_connections = {"w1"}
  /\ ws = [c \in Conns |-> IF c = "w1" THEN "open" ELSE "new"]
  /\ link = [c \in Conns |-> "ok"]
  /\ sent = [c \in Conns |-> 0]
  /\ bc_pc = "sleep"
  /\ upd_i = NoSlot
  /\ fetch_id = NoId
  /\ update_data = <<>>
  /\ bc_cur = NoConn
  /\ it_rest = {}
  /\ it_used = 0
  /\ disconnected_clients = {}
  /\ push_conns = {}
  /\ ls_pc = "running"
  /\ meta_status = "none"
  /\ ws_msg = [c \in Conns |-> NoMessage]
  /\ device_out = PayloadNone

NextOcc ==
  \/ CycleStart
  \/ FetchReturn
  \/ SendReturn

SpecOcc == InitOcc /\ [][NextOcc]_vars

\* ================================================================== claims

\* ---- C1
\* C1: every snapshot entry's occupancy_state is 'occupied' when its
\* people_count is positive, otherwise 'possibly_occupied' when a last
\* detection time is set and less than the threshold (in minutes) has
\* elapsed since it, otherwise 'vacant'; with threshold 5 and nobody
\* present, 4 minutes after the last detection gives possibly_occupied and
\* 5 minutes or more gives vacant; a never-detected slot is vacant.
C1_Occupancy ==
  update_data # <<>> =>
    \A i \in Slots :
      LET e == update_data[1].devices[i]
          thr == update_data[1].vacant_time_minutes
          seconds == update_data[1].timestamp - e.last_detection_time
          never == (e.last_detection_time = 0)
      IN /\ e.people_count > 0 => e.occupancy_state = "occupied"
         /\ (e.people_count = 0 /\ ~never /\ seconds < thr * 60)
              => e.occupancy_state = "possibly_occupied"
         /\ (e.people_count = 0 /\ (never \/ seconds >= thr * 60))
              => e.occupancy_state = "vacant"
         /\ (e.people_count = 0 /\ thr = 5 /\ ~never /\ seconds = 4 * 60)
              => e.occupancy_state = "possibly_occupied"
         /\ (e.people_count = 0 /\ thr = 5 /\ ~never /\ seconds >= 5 * 60)
              => e.occupancy_state = "vacant"

C1_Witness ==
  /\ update_data # <<>>
  /\ update_data[1].vacant_time_minutes = 5
  /\ update_data[1].devices[0].people_count = 0
  /\ update_data[1].devices[0].last_detection_time = OccStart
  /\ update_data[1].timestamp = OccStart + 5 * 60
  /\ update_data[1].devices[0].occupancy_state = "vacant"

\* ---- C2
\* The number of detections of the person class in a detection set.
CountClass0(dets) ==
  Cardinality({n \in 1 .. Len(dets) :
                 dets[n].is_dict /\ dets[n].has_C /\ dets[n].C = 0})

\* C2: in every state, and in every snapshot, each slot's people_count is
\* the number of class 0 detections of the slot's latest detection set.
C2_PeopleCountCurrent ==
  /\ \A i \in Slots :
       devices[i].people_count =
         CountClass0(devices[i].last_inference_data.DeserializedData)
  /\ update_data # <<>> =>
       \A i \in Slots :
         update_data[1].devices[i].people_count =
           CountClass0(update_data[1].devices[i].detections)

\* ---- C3
\* C3: no two slots are bound to the same non-empty device id.
C3_DistinctBindings ==
  \A i, j \in Slots :
    (i # j /\ devices[i].device_id # NoId)
      => devices[i].device_id # devices[j].device_id

\* ---- C4
\* C4: id_to_index[d] = i exactly when slot i carries the non-empty device
\* id d.
C4_IndexMatchesSlots ==
  \A d \in DeviceIds, i \in Slots :
    (DictHas(id_to_index, d) /\ DictGet(id_to_index, d) = i)
      <=> (devices[i].device_id = d)

\* ---- C5, C6
\* The step in which broadcast_json is left, normally or by an exception.
PushEnds == bc_pc = "send" /\ bc_pc' \in {"sleep", "backoff"}

\* The connections whose write has failed in the push that is ending.
FailedInPush ==
  disconnected_clients
    \cup (IF link[bc_cur] = "broken" THEN {bc_cur} ELSE {})

\* C5: when a write fails during a push, the failing connection is absent
\* from active_connections after the push and every other connection
\* registered for the push (and still there, with a working transport) has
\* received the cycle's snapshot.
C5_FailureIsolated ==
  [][(PushEnds /\ FailedInPush # {}) =>
       /\ FailedInPush \cap active_connections' = {}
       /\ \A c \in (push_conns \cap active_connections') \ FailedInPush :
            link[c] = "ok" => sent'[c] >= 1]_vars

\* C6: when connections are registered or unregistered while a push is in
\* progress, the push completes without error and every connection that
\* stayed registered throughout it has received the snapshot.
C6_MutationDuringPush ==
  [][(PushEnds /\ active_connections # push_conns) =>
       /\ bc_pc' = "sleep"
       /\ \A c \in push_conns \cap active_connections :
            link[c] = "ok" => sent'[c] >= 1]_vars

\* ---- C7
\* C7: a send that hangs does not block the push: the task gets past the
\* connection it is hung on (to the remaining connections and the later
\* cycles), or is cancelled.
C7_HangDoesNotBlock ==
  \A c \in Conns :
    (bc_pc = "send" /\ bc_cur = c /\ link[c] = "stalled")
      ~> (~(bc_pc = "send" /\ bc_cur = c))

\* ---- C8
\* C8: an exception in a cycle never ends the task: the task is in its
\* backoff sleep and then starts another cycle, and the task has ended only
\* if it was cancelled.
C8_LoopSurvives ==
  /\ [](bc_pc = "done" => ls_pc # "running")
  /\ [][(bc_pc = "backoff" /\ bc_pc' # "backoff")
          => bc_pc' \in {"fetch", "send", "sleep", "done"}]_vars
  /\ (bc_pc = "backoff") ~> (bc_pc \in {"fetch", "send", "sleep", "done"})

C8_Witness == bc_pc = "backoff" /\ ls_pc = "running"

\* ---- C9
\* C9: once cancellation is requested the task's only step is to end,
\* whatever await it is suspended in; no snapshot is written to a connection
\* from then on; the task does end, and lifespan's shutdown completes only
\* after it has.
C9_Cancellation ==
  /\ [][ls_pc # "running" =>
          /\ sent' = sent
          /\ bc_pc' # bc_pc => bc_pc' = "done"]_vars
  /\ [](ls_pc = "stopped" => bc_pc = "done")
  /\ (ls_pc = "cancelling") ~> (bc_pc = "done")
  /\ (ls_pc = "cancelling") ~> (ls_pc = "stopped")

C9_Witness ==
  /\ ls_pc = "stopped"
  /\ bc_pc = "done"
  /\ \E c \in active_connections : link[c] = "ok"

\* ---- C10
\* C10: connectivity facts are applied only to a slot that is bound, at that
\* moment, to the device id they were fetched for.
C10_FactsGoToBoundSlot ==
  [][\A i \in Slots :
       (devices'[i].connected # devices[i].connected
        \/ devices'[i].operation_state # devices[i].operation_state)
         => (fetch_id # NoId /\ devices[i].device_id = fetch_id)]_vars

\* ---- C11
\* C11: when the fetch of a device's connectivity fails, the refresh leaves
\* that slot with connected = false and operation_state = 'Error', and the
\* failure does not leave the refresh (the cycle goes on, the task does not
\* enter its error backoff).
C11_FetchFailureIsError ==
  [][\A outcome \in FetchOutcomes :
       (~outcome.ok /\ FetchReturnWith(outcome)) =>
         /\ ~devices'[upd_i].connected
         /\ devices'[upd_i].operation_state = "Error"
         /\ bc_pc' \in {"fetch", "send", "sleep"}]_vars

\* ---- C12
\* C12: a slot's last_detection_time only advances: no step (ingest,
\* connectivity update, rebind, inference command, cycle) makes it smaller,
\* and once set it never returns to 'never' (0).
C12_LastDetectionAdvances ==
  [][\A i \in Slots :
       /\ devices'[i].last_detection_time >= devices[i].last_detection_time
       /\ devices[i].last_detection_time # 0
            => devices'[i].last_detection_time # 0]_vars

\* A slot whose last detection was set after the start, then counted nobody,
\* was refreshed as connected and rebound to another device.
C12_Witness ==
  \E i \in Slots :
    /\ devices[i].last_detection_time > StartTime
    /\ devices[i].people_count = 0
    /\ devices[i].connected
    /\ devices[i].last_inference_data.present
    /\ devices[i].device_id # devices[i].last_inference_data.DeviceID

\* ---- C13, C14
\* The request carries a detection set to the registry: pre-decoded, or a
\* non-empty encoded payload.
Delivers(body) ==
  \/ body.kind = "predecoded"
  \/ body.kind = "inferences" /\ DropSkipped(body.inferences) # <<>>

\* Slot i receives a detection set in this step: last_inference_data is
\* assigned by an ingest only.
Receives(i) == devices'[i].last_inference_data # devices[i].last_inference_data

\* Every value of the detection set is an object, so the counting loop runs
\* to its end.
Countable(dets) == \A n \in 1 .. Len(dets) : dets[n].is_dict

\* C13 as stated: last_detection_time is set exactly when an ingest moves
\* people_count from 0 to a positive value; in every other step, an ingest
\* that leaves people_count positive or results in 0 included, it is
\* unchanged.
C13_SetOnTransitionOnly ==
  [][\A i \in Slots :
       LET rising == devices[i].people_count = 0 /\ devices'[i].people_count > 0
       IN /\ rising => devices'[i].last_detection_time = now
          /\ ~rising => devices'[i].last_detection_time
                          = devices[i].last_detection_time]_vars

\* C13: last_detection_time is set by the ingests that count at least one
\* person and by nothing else: an ingest that moves people_count from 0 to
\* positive sets it to the time of the ingest, and so does an ingest that
\* counts a positive number while people_count was positive already; an
\* ingest that results in 0 leaves it unchanged; whenever it changes, it
\* becomes the time of the step and people_count is positive.
C13_SetByCountingIngest ==
  [][\A i \in Slots :
       /\ (devices[i].people_count = 0 /\ devices'[i].people_count > 0)
            => devices'[i].last_detection_time = now
       /\ (/\ Receives(i)
           /\ devices[i].people_count > 0
           /\ Countable(devices'[i].last_inference_data.DeserializedData)
           /\ CountClass0(devices'[i].last_inference_data.DeserializedData) > 0)
            => devices'[i].last_detection_time = now
       /\ devices'[i].people_count = 0
            => devices'[i].last_detection_time = devices[i].last_detection_time
       /\ devices'[i].last_detection_time # devices[i].last_detection_time
            => /\ devices'[i].people_count > 0
               /\ devices'[i].last_detection_time = now]_vars

\* A slot that counts two people at a time later than the start, its last
\* detection being that time.
C13_Witness ==
  \E i \in Slots :
    /\ devices[i].people_count = 2
    /\ now > StartTime
    /\ devices[i].last_detection_time = now

\* C14: after every ingest for a bound device, last_detection_time is the
\* time of that ingest when the resulting people_count is positive, and
\* keeps its previous value when the resulting people_count is 0.
C14_DetectionTimeAfterIngest ==
  [][\A i \in Slots :
       Receives(i) =>
         /\ devices'[i].people_count > 0
              => devices'[i].last_detection_time = now
         /\ devices'[i].people_count = 0
              => devices'[i].last_detection_time
                   = devices[i].last_detection_time]_vars

\* ---- C15
\* The non-empty device ids the slots carry.
BoundIds == {devices[i].device_id : i \in Slots} \ {NoId}

\* The registry after the handler of a request (raw, body).
After(raw, body) == HandleMeta(devices, id_to_index, raw, body, now).devices

\* The request was applied under device id id: only slots bound to id have
\* changed and, when id is bound, a slot bound to it holds the request's
\* detection set under that id.
AppliedAs(id, raw, body) ==
  /\ \A i \in Slots :
       After(raw, body)[i] # devices[i] => devices[i].device_id = id
  /\ id \in BoundIds =>
       \E i \in Slots :
         /\ devices[i].device_id = id
         /\ After(raw, body)[i].last_inference_data.present
         /\ After(raw, body)[i].last_inference_data.DeviceID = id

\* C15: a raw id that starts with 'Aid-' is used unchanged; any other raw id
\* that is a suffix of a currently bound canonical id is replaced by such an
\* id, and the ingest updates the slot bound to it.
C15_IdResolution ==
  \A raw \in RawIds, body \in Bodies :
    Delivers(body) =>
      IF StartsWith(raw, AidPrefix) THEN AppliedAs(raw, raw, body)
      ELSE (\E k \in BoundIds : EndsWith(k, raw))
             => \E k \in BoundIds : EndsWith(k, raw) /\ AppliedAs(k, raw, body)

\* ---- C16
\* No slot is bound to the id the request is addressed to: the canonical id
\* itself, or any id the raw id is a suffix of.
NoSlotFor(raw) ==
  IF StartsWith(raw, AidPrefix) THEN raw \notin BoundIds
  ELSE \A k \in BoundIds : ~EndsWith(k, raw)

\* C16: an ingest (a request with a well-formed JSON body) whose device id
\* resolves to no bound slot leaves every slot as it is and is answered
\* with status success; the reverse index does not change in a step that
\* answers a request.
C16_UnboundIngestIsNoOp ==
  /\ [](\A raw \in RawIds :
          NoSlotFor(raw) =>
            \A body \in Bodies :
              body.kind # "invalid_json" =>
                /\ After(raw, body) = devices
                /\ HandleMeta(devices, id_to_index, raw, body, now).status
                     = "success")
  /\ [][meta_status' # meta_status => id_to_index' = id_to_index]_vars

\* A request was answered with success while slots are bound and no slot
\* holds a detection set.
C16_Witness ==
  /\ meta_status = "success"
  /\ BoundIds # {}
  /\ \A i \in Slots : ~devices[i].last_inference_data.present

\* ---- C17
\* The device id of every slot.
Bindings(devs) == [i \in Slots |-> devs[i].device_id]

\* What ingestion, the connectivity refresh and the inference commands
\* write in a slot.
Facts(dev) ==
  <<dev.connected, dev.operation_state, dev.inference_active,
    dev.people_count, dev.last_detection_time, dev.last_inference_data>>

\* C17: a step of ingestion, of the connectivity refresh, of start_inference
\* or stop_inference, or of the cycle composing the snapshot (a step that
\* writes a slot's facts, answers a request or moves the broadcast task)
\* leaves every slot's device_id and id_to_index unchanged; a step that
\* changes them is a step of update_device_info.
C17_BindingsFrame ==
  [][/\ ((\E i \in Slots : Facts(devices'[i]) # Facts(devices[i]))
          \/ meta_status' # meta_status
          \/ bc_pc' # bc_pc
          \/ upd_i' # upd_i)
         => /\ Bindings(devices') = Bindings(devices)
            /\ id_to_index' = id_to_index
     /\ (Bindings(devices') # Bindings(devices) \/ id_to_index' # id_to_index)
         => \E index \in RebindIndexes, info \in Infos :
              update_device_info(index, info)]_vars

\* A bound slot, still indexed, that an ingest, a refresh and a successful
\* stop_inference have written.
C17_Witness ==
  \E i \in Slots :
    /\ devices[i].device_id # NoId
    /\ DictHas(id_to_index, devices[i].device_id)
    /\ DictGet(id_to_index, devices[i].device_id) = i
    /\ devices[i].last_inference_data.present
    /\ devices[i].connected
    /\ devices[i].operation_state = "StreamingInferenceResult"
    /\ ~devices[i].inference_active

\* ---- C18
\* C18: a step in which a slot's device id changes leaves id_to_index with
\* the new id mapped to the slot and with no entry for the old id, and
\* id_to_index changes in such a step only: no state lies between the
\* removal of the old entry and the insertion of the new one.
C18_RebindAtomic ==
  [][/\ \A index \in Slots :
          devices'[index].device_id # devices[index].device_id =>
            /\ devices'[index].device_id # NoId =>
                 /\ DictHas(id_to_index', devices'[index].device_id)
                 /\ DictGet(id_to_index', devices'[index].device_id) = index
            /\ ~DictHas(id_to_index', devices[index].device_id)
     /\ id_to_index' # id_to_index =>
          \E index \in Slots :
            devices'[index].device_id # devices[index].device_id]_vars

\* Slot 0 was rebound to 'Aid-2a' while the fetch issued for its former id
\* 'Aid-1a' is in flight: the index has the new id only.
C18_Witness ==
  /\ bc_pc = "fetch"
  /\ upd_i = 0
  /\ fetch_id = IdA
  /\ devices[0].device_id = IdB
  /\ DictHas(id_to_index, IdB)
  /\ DictGet(id_to_index, IdB) = 0
  /\ ~DictHas(id_to_index, IdA)

\* ---- C19
\* What an ingest writes in a slot.
Counted(dev) ==
  <<dev.people_count, dev.last_detection_time, dev.last_inference_data>>

\* C19: a step that changes a slot's people_count, last_detection_time or
\* detection set is an ingest for the device the slot is bound to (the set
\* the slot holds afterwards was delivered under the slot's own device id)
\* and changes them in no other slot, however ingests for the two devices,
\* the refresh and the commands interleave.
C19_NoCrossSlot ==
  [][\A i \in Slots :
       Counted(devices'[i]) # Counted(devices[i]) =>
         /\ devices'[i].last_inference_data.present
         /\ devices'[i].last_inference_data.DeviceID = devices[i].device_id
         /\ \A j \in Slots \ {i} :
              Counted(devices'[j]) = Counted(devices[j])]_vars

\* Two slots bound to the two devices, each holding a set delivered under
\* its own id, the sets being different, while a fetch of the cycle is in
\* flight.
C19_Witness ==
  \E i, j \in Slots :
    /\ devices[i].device_id = IdA
    /\ devices[j].device_id = IdB
    /\ devices[i].last_inference_data.present
    /\ devices[j].last_inference_data.present
    /\ devices[i].last_inference_data.DeviceID = IdA
    /\ devices[j].last_inference_data.DeviceID = IdB
    /\ devices[i].people_count > 0
    /\ devices[j].people_count = 0
    /\ bc_pc = "fetch"

\* ---- C20
\* The payloads of the list from the first one on that is non-empty and
\* decodes without a top-level failure.
RECURSIVE FromFirstDecodable(_)
FromFirstDecodable(inferences) ==
  IF inferences = <<>> THEN <<>>
  ELSE IF Head(inferences).empty \/ ~Head(inferences).b64_ok
          \/ ~Head(inferences).root_ok
       THEN FromFirstDecodable(Tail(inferences))
       ELSE inferences

\* C20: of the encoded payloads of a request for a bound device, the first
\* one that decodes without a top-level failure gives the slot's detection
\* set; a payload that fails at the top level does not update the slot.
C20_FirstDecodablePayload ==
  \A raw \in RawIds, body \in Bodies :
    (body.kind = "inferences"
     /\ DictHas(id_to_index, ResolveId(id_to_index, raw))) =>
      LET i == DictGet(id_to_index, ResolveId(id_to_index, raw))
          good == FromFirstDecodable(body.inferences)
      IN IF good = <<>> THEN After(raw, body)[i] = devices[i]
         ELSE After(raw, body)[i].last_inference_data.DeserializedData
                = DecodeElems(Head(good).elems)

\* ---- C21
\* The detection set a request carries: the pre-decoded set of its body, or
\* what the decoder returns for the payload the handler hands to it.
Carried(body) ==
  IF body.kind = "predecoded" THEN body.dets
  ELSE get_deserialize_data(Head(DropSkipped(body.inferences))).value

\* C21: after an ingest for a bound device, the slot's detections are
\* exactly the set the request carries (the pre-decoded set as it is, or
\* the decoded set), whatever set the slot held before.
C21_ReplacedWholesale ==
  \A raw \in RawIds :
    DictHas(id_to_index, ResolveId(id_to_index, raw)) =>
      \A body \in Bodies :
        Delivers(body) =>
          After(raw, body)[DictGet(id_to_index, ResolveId(id_to_index, raw))]
            .last_inference_data.DeserializedData = Carried(body)

\* A slot that has counted a person before holds a set of one detection
\* without class.
C21_Witness ==
  \E i \in Slots :
    /\ devices[i].last_detection_time > 0
    /\ devices[i].last_inference_data.present
    /\ devices[i].last_inference_data.DeserializedData = <<NoClass>>

\* ---- C22
\* C22: a request whose body is not parsable JSON is answered with an error
\* and leaves every slot as it was; every other request, whatever its
\* device id and whatever its detections or payloads, is answered with
\* success.
C22_OnlyBadJsonFails ==
  \A raw \in RawIds, body \in Bodies :
    LET answer == HandleMeta(devices, id_to_index, raw, body, now)
    IN IF body.kind = "invalid_json"
       THEN answer.status = "error" /\ answer.devices = devices
       ELSE answer.status = "success"

\* ---- C23
\* C23: when a viewer's handler has handled an inbound message, a ping has
\* been answered with pong, and whatever the message was (a ping, another
\* type, invalid JSON, JSON that is not an object) the connection is still
\* open and, if it was registered, still in active_connections.
C23_InboundIgnored ==
  [][\A c \in Conns :
       ws_msg'[c] # ws_msg[c] =>
         /\ ws_msg'[c].message = "ping" => ws_msg'[c].reply = "pong"
         /\ ws'[c] = "open"
         /\ c \in active_connections => c \in active_connections']_vars

\* ---- C24
\* The step in which update_clients composes a snapshot.
Composes == update_data' # update_data /\ update_data' # <<>>

\* C24: a snapshot is composed after the connectivity refresh of its cycle
\* and before the push, it shows the registry as that refresh and every
\* ingest completed so far have left it, and when the push is left every
\* connection that was registered for it (with a working transport) has
\* been sent exactly one snapshot.
C24_CycleOrder ==
  [][/\ Composes =>
          (/\ bc_pc \in {"init", "sleep", "backoff", "fetch"}
           /\ bc_pc' = "send"
           /\ update_data'[1] = Snapshot(devices)')
     /\ PushEnds =>
          (\A c \in push_conns : link[c] = "ok" => sent'[c] = 1)]_vars

\* ---- C25
\* What the slot of the first device holds, when the device is bound.
FirstBound == DictHas(id_to_index, IdA)
Stored == devices[DictGet(id_to_index, IdA)].last_inference_data
Malformed(payload) == ~payload.b64_ok \/ ~payload.root_ok
WellFormed(payload) ==
  /\ payload.b64_ok /\ payload.root_ok
  /\ payload.has_perception /\ payload.has_list

\* C25: for every payload (text that is not base64 and a buffer whose root
\* does not resolve included) neither get_deserialize_data nor
\* deserialize_flatbuffers raises: the request is answered with success and
\* the slot holds what the decoder returned for that payload, which is the
\* empty set when the payload is malformed at the top level.
C25_DecoderTotal ==
  meta_status # "none" =>
    /\ ~get_deserialize_data(device_out).raises
    /\ device_out.b64_ok => ~deserialize_flatbuffers(device_out).raises
    /\ meta_status = "success"
    /\ FirstBound =>
         /\ Stored.present
         /\ Stored.Inferences = <<device_out>>
         /\ Malformed(device_out) => Stored.DeserializedData = <<>>

\* A payload that is not base64 has been handled and the slot holds it.
C25_Witness ==
  /\ meta_status = "success"
  /\ FirstBound
  /\ ~device_out.b64_ok
  /\ Stored.present
  /\ Stored.Inferences = <<device_out>>

\* ---- C26
\* An element of the 2-D bounding box variant, and the record its fields
\* encode (the default for a field the table does not have).
TwoD(e) == ~e.corrupt /\ e.has_type /\ e.bbox_type = 1 /\ e.has_bbox
AllTwoD(elems) == \A n \in 1 .. Len(elems) : TwoD(elems[n])
Expected(e) ==
  [is_dict |-> TRUE, has_C |-> TRUE,
   C |-> IF e.has_class THEN e.C ELSE 0,
   P |-> IF e.has_score THEN e.P ELSE 0,
   X |-> IF e.has_left THEN e.X ELSE 0,
   Y |-> IF e.has_top THEN e.Y ELSE 0,
   x |-> IF e.has_right THEN e.x ELSE 0,
   y |-> IF e.has_bottom THEN e.y ELSE 0]

\* C26: for a well-formed buffer whose k elements are all 2-D boxes the
\* slot holds exactly k records, the n-th with the class id, score and
\* coordinates of the n-th element, 0 for each field the element lacks.
C26_WellFormedDecoded ==
  (FirstBound /\ Stored.present /\ WellFormed(device_out)
     /\ AllTwoD(device_out.elems)) =>
    /\ Len(Stored.DeserializedData) = Len(device_out.elems)
    /\ \A n \in 1 .. Len(device_out.elems) :
         Stored.DeserializedData[n] = Expected(device_out.elems[n])

\* Three 2-D boxes, the second with no field but its box, have been decoded.
C26_Witness ==
  /\ FirstBound
  /\ Stored.present
  /\ device_out.elems = <<GoodElem(1), DefaultsElem, GoodElem(0)>>
  /\ WellFormed(device_out)
  /\ Len(Stored.DeserializedData) = 3

\* ---- C27
\* The records of the 2-D boxes of a vector, in the vector's order.
RECURSIVE Kept(_)
Kept(elems) ==
  IF elems = <<>> THEN <<>>
  ELSE (IF TwoD(Head(elems)) THEN <<Expected(Head(elems))>> ELSE <<>>)
         \o Kept(Tail(elems))

\* C27: an element of another box type, without box table or whose
\* processing raises is left out, and the slot holds the records of all
\* other elements of the vector, those after a left-out element included,
\* in their relative order.
C27_SkipAndContinue ==
  (FirstBound /\ Stored.present /\ WellFormed(device_out)) =>
    Stored.DeserializedData = Kept(device_out.elems)

\* A vector with a corrupt element between two boxes has been decoded to
\* two records.
C27_Witness ==
  /\ FirstBound
  /\ Stored.present
  /\ WellFormed(device_out)
  /\ device_out.elems = <<GoodElem(0), CorruptElem, GoodElem(1)>>
  /\ Len(Stored.DeserializedData) = 2

\* ---- C28
\* C28: every 2-D box of the vector is delivered under the position it has
\* in the vector, also when elements before it were left out.
C28_IndexPreserved ==
  (FirstBound /\ Stored.present /\ WellFormed(device_out)) =>
    \A n \in 1 .. Len(device_out.elems) :
      TwoD(device_out.elems[n]) =>
        /\ n <= Len(Stored.DeserializedData)
        /\ Stored.DeserializedData[n] = Expected(device_out.elems[n])

\* ---- C29
\* C29: the step that composes a snapshot leaves the reverse index, the
\* threshold and every slot field other than the facts of the connectivity
\* refresh it ends (connected, operation_state, inference_active) as they
\* are; the snapshot has one entry per slot, entry
\* i showing slot i, and its occupancy states are those of the threshold
\* it reports, which is the configured one.
C29_ComposeReadOnly ==
  [][Composes =>
       LET snap == update_data'[1] IN
       /\ id_to_index' = id_to_index
       /\ vacant_time_minutes' = vacant_time_minutes
       /\ snap.vacant_time_minutes = vacant_time_minutes
       /\ DOMAIN snap.devices = Slots
       /\ \A i \in Slots :
            /\ [devices'[i] EXCEPT
                  !.connected = devices[i].connected,
                  !.operation_state = devices[i].operation_state,
                  !.inference_active = devices[i].inference_active]
                 = devices[i]
            /\ snap.devices[i].device_id = devices'[i].device_id
            /\ snap.devices[i].display_name = devices'[i].display_name
            /\ snap.devices[i].connected = devices'[i].connected
            /\ snap.devices[i].inference_active = devices'[i].inference_active
            /\ snap.devices[i].operation_state = devices'[i].operation_state
            /\ snap.devices[i].people_count = devices'[i].people_count
            /\ snap.devices[i].last_detection_time =
                 devices'[i].last_detection_time
            /\ snap.devices[i].occupancy_state =
                 get_occupancy_state(devices'[i], snap.vacant_time_minutes,
                                     snap.timestamp)]_vars

\* A snapshot composed under a threshold of 30 minutes shows the first slot
\* as possibly occupied 5 minutes or more after its last detection.
C29_Witness ==
  /\ update_data # <<>>
  /\ vacant_time_minutes = 30
  /\ update_data[1].vacant_time_minutes = 30
  /\ update_data[1].devices[0].device_id = devices[0].device_id
  /\ update_data[1].devices[0].last_detection_time > 0
  /\ update_data[1].timestamp - update_data[1].devices[0].last_detection_time
       >= DEFAULT_VACANT_TIME_MINUTES * SecondsPerMinute
  /\ update_data[1].devices[0].occupancy_state = "possibly_occupied"

\* ---- C30
\* C30: the registry has the five slots 0..4 in every state, whatever the
\* length of the configured device list and whatever rebinds, background
\* updates and connectivity updates have happened, and no rebind and no
\* background update with an index outside 0..4 can change the registry or
\* the reverse index.
C30_SlotCountFixed ==
  /\ DOMAIN devices = 0 .. 4
  /\ \A index \in RebindIndexes \ Slots :
       /\ \A info \in Infos :
            ~ENABLED (update_device_info(index, info)
                        /\ <<devices, id_to_index>>' # <<devices, id_to_index>>)
       /\ \A background_path \in Backgrounds :
            ~ENABLED (update_device_background(index, background_path)
                        /\ <<devices, id_to_index>>' # <<devices, id_to_index>>)

\* After a rebind of the first slot, a background update of the second and
\* a connectivity update the registry has five slots.
C30_Witness ==
  /\ Cardinality(DOMAIN devices) = 5
  /\ devices[0].device_id = IdB
  /\ devices[0].connected
  /\ devices[1].background_image # ""

\* ---- C31
\* C31: a request to fetch_device_image, get_command_parameters or
\* apply_command_parameters that found inference active for its device has
\* called stop_inference before its operation, and has called
\* start_inference again when it returns, whatever the outcome of the
\* operation.
C31_StopOperateRestart ==
  req.inference_active =>
    /\ req.operated => req.stopped
    /\ req.pc = "returned" => req.stopped /\ req.restarted

\* ---- C32
\* The step in which the refresh calls get_connection_state, the slot it
\* polled before in this refresh, and the step that leaves the refresh.
PollBegins == bc_pc' = "fetch" /\ (bc_pc # "fetch" \/ upd_i' # upd_i)
PolledBefore == IF bc_pc = "fetch" THEN upd_i ELSE NoSlot
RefreshEnds == bc_pc = "fetch" /\ bc_pc' # "fetch"
FailedFetch == CHOOSE outcome \in FetchOutcomes : ~outcome.ok

\* C32: one connectivity refresh goes over the slots once, in their order:
\* every poll is for a slot after the one polled before (none is polled
\* twice, a failed fetch is not repeated), the polled slot carries a device
\* id, every slot passed over or left at the end carries none, and the
\* return of a fetch, failed or not, updates its slot and goes on to the
\* next bound slot or to the snapshot.
C32_PollOncePerCycle ==
  [][/\ PollBegins =>
          (/\ upd_i' > PolledBefore
           /\ devices'[upd_i'].device_id # NoId
           /\ fetch_id' = devices'[upd_i'].device_id
           /\ \A j \in Slots :
                (PolledBefore < j /\ j < upd_i') => devices'[j].device_id = NoId)
     /\ RefreshEnds =>
          (\A j \in Slots : j > upd_i => devices'[j].device_id = NoId)
     /\ \A outcome \in FetchOutcomes :
          FetchReturnWith(outcome) =>
            (/\ devices'[upd_i] =
                  update_from_api(devices[upd_i],
                                  get_connection_state(outcome)[1],
                                  get_connection_state(outcome)[2])
             /\ bc_pc' \in {"fetch", "send", "sleep"})]_vars

\* The fetch for slot 0 is in flight, slot 1 is bound too, and the failure
\* of the fetch is followed by the poll of slot 1.
C32_Witness ==
  /\ bc_pc = "fetch" /\ upd_i = 0
  /\ devices[1].device_id # NoId
  /\ ENABLED (FetchReturnWith(FailedFetch) /\ bc_pc' = "fetch" /\ upd_i' = 1)

\* ---- C33
\* The bound ids the raw id is a suffix of, and the position in the reverse
\* index of the first key the raw id is a suffix of (0 when there is none).
MatchingIds(raw) == {k \in BoundIds : EndsWith(k, raw)}
FirstKeyAt(raw) ==
  LET at == {n \in 1 .. Len(id_to_index) : EndsWith(id_to_index[n].k, raw)}
  IN IF at = {} THEN 0 ELSE CHOOSE n \in at : \A m \in at : n <= m

\* C33: when a raw id without the prefix is a suffix of more than one bound
\* canonical id, an ingest is applied to exactly one slot, the slot of the
\* first key in the insertion order of the reverse index that ends with the
\* raw id, and every other slot is left as it is.
C33_SharedSuffixFirstKey ==
  \A raw \in RawIds :
    (~StartsWith(raw, AidPrefix) /\ Cardinality(MatchingIds(raw)) > 1) =>
      /\ FirstKeyAt(raw) # 0
      /\ \A body \in BodiesBrief :
           After(raw, body) =
             [devices EXCEPT ![id_to_index[FirstKeyAt(raw)].v] =
                process_inference_data(@, id_to_index[FirstKeyAt(raw)].k,
                                       body.dets, body.inferences, now)]

\* ---- C34
\* What update_device_info and update_device_background write in a slot.
Labels(dev) == <<dev.device_id, dev.display_name, dev.background_image>>

\* C34: a step of update_device_info or update_device_background (a step
\* that changes a slot's device_id, display_name or background_image, or
\* the reverse index) leaves every slot's people_count, last_detection_time,
\* detection set, connected, operation_state and inference_active as they
\* were, also in the slot that gets another device id.
C34_LabelsFrame ==
  [][((\E i \in Slots : Labels(devices'[i]) # Labels(devices[i]))
      \/ id_to_index' # id_to_index)
       => /\ \A i \in Slots : Facts(devices'[i]) = Facts(devices[i])
          /\ <<now, vacant_time_minutes>>' = <<now, vacant_time_minutes>>]_vars

\* Slot 0 carries 'Aid-2a' and a background image, and still holds the
\* count, the detection set and the connectivity of 'Aid-1a'.
C34_Witness ==
  /\ devices[0].device_id = IdB
  /\ devices[0].background_image # ""
  /\ devices[0].people_count > 0
  /\ devices[0].last_inference_data.present
  /\ devices[0].last_inference_data.DeviceID = IdA
  /\ devices[0].connected
  /\ devices[0].inference_active

\* ---- C35
\* The occupancy state a snapshot composed now shows for slot i.
Shown(i) == get_occupancy_state(devices[i], vacant_time_minutes, now)

\* C35: a slot with people_count 0 that is shown 'vacant' is shown 'vacant'
\* after every step that leaves its people_count at 0 (connectivity updates,
\* rebinds, settings updates, the passing of time): only an ingest that
\* counts a person ends the vacancy.
C35_VacantIsStable ==
  [][\A i \in Slots :
       (/\ devices[i].people_count = 0
        /\ Shown(i) = "vacant"
        /\ devices'[i].people_count = 0)
         => Shown(i)' = "vacant"]_vars

\* ---- C36
\* C36: whichever of the push and the websocket handler removes a
\* connection first, the removal by the other raises no error: the
\* disconnect of a handler whose viewer has gone (the connection may have
\* been removed by a failed push already) does not raise, and no connection
\* the push has marked for removal has left the set when the push comes to
\* remove it.
C36_SecondRemovalSilent ==
  /\ \A c \in Conns :
       (ws[c] = "open" /\ link[c] = "broken")
         => ~set_remove(active_connections, c).raises
  /\ \A c \in disconnected_clients :
       ~set_remove(active_connections, c).raises

\* ---- C37
\* No settings request is in flight.
SettingsQuiet == \A r \in SettingsRequests : set_req[r].pc = "idle"

\* C37: whenever no update_device_settings request is in flight, the stored
\* device list agrees with the registry: for every index the file lists,
\* the stored device_id and display_name are those of the registry's slot.
C37_FileAgreesWithRegistry ==
  SettingsQuiet =>
    \A i \in Slots :
      i + 1 <= Len(settings.devices) =>
        /\ settings.devices[i + 1].device_id = devices[i].device_id
        /\ settings.devices[i + 1].display_name = devices[i].display_name

\* ---- C38
\* Device ids the inference commands are called with: the two devices and
\* an id no slot carries.
CommandIds == DeviceIds \cup {<<"z">>}

\* C38: start_inference and stop_inference never raise and report success
\* exactly for a SUCCESS result; a slot they change is the slot the index
\* gives for the device id, it carries that id, the result was SUCCESS and
\* only its inference_active has changed, to true for start and to false
\* for stop; on any other result, on an exception of the vendor call and
\* for an id the index does not have, no slot changes.
C38_CommandsSetFlagOnSuccess ==
  \A device_id \in CommandIds, result \in CommandResults, active \in BOOLEAN :
    LET r == inference_command(devices, id_to_index, device_id, result, active)
        known == DictHas(id_to_index, device_id)
    IN
    /\ ~r.raised
    /\ r.success = (result = "SUCCESS")
    /\ \A i \in Slots :
         r.devices[i] # devices[i] =>
           /\ result = "SUCCESS"
           /\ devices[i].device_id = device_id
           /\ r.devices[i] = [devices[i] EXCEPT !.inference_active = active]
    /\ (result # "SUCCESS" \/ ~known) => r.devices = devices
    /\ (result = "SUCCESS" /\ known) =>
         r.devices[DictGet(id_to_index, device_id)].inference_active = active

\* A slot whose inference_active was set by start_inference (the refresh
\* sets it for a connected device only).
C38_Witness ==
  \E i \in Slots :
    /\ devices[i].device_id # NoId
    /\ devices[i].inference_active
    /\ ~devices[i].connected

\* ---- C39
\* The operations of a sequence of vendor calls.
Ops(calls) == [n \in 1 .. Len(calls) |-> calls[n].op]
FileOps == {"update", "register"}

\* C39: for every request and every outcome of the vendor calls,
\* apply_parameters calls unbind first and only for a file the cached list
\* binds the device to, then update (the file is listed) or register (it is
\* not), then bind; it goes on after a failed unbind, stops without a bind
\* after a failed update or register, reports success only when its last
\* call is a bind that succeeded, and on success leaves the file cache
\* expired and the device without cached parameters.
C39_ApplyOrder ==
  \A has_commands \in BOOLEAN, out \in ApplyOutcomes :
    LET r == apply_parameters(cpm, IdA, has_commands, now, out)
        calls == r.calls
        listed == r.cpm.parameter_files_cache.parameter_list
    IN
    /\ \A n \in 1 .. Len(calls) :
         /\ calls[n].op = "unbind" =>
              /\ n = 1
              /\ \E m \in 1 .. Len(listed) :
                   /\ listed[m].file_name = calls[n].file_name
                   /\ IdA \in listed[m].device_ids
              /\ Len(calls) >= 2 /\ calls[2].op \in FileOps
         /\ calls[n].op \in FileOps =>
              /\ \A m \in 1 .. n - 1 : calls[m].op = "unbind"
              /\ calls[n].file_name = FileNameOf(IdA)
              /\ (calls[n].op = "update") = FileExists(listed, FileNameOf(IdA))
              /\ calls[n].outcome = "raise" => (n = Len(calls) /\ ~r.success)
         /\ calls[n].op = "bind" =>
              /\ n = Len(calls) /\ n > 1
              /\ calls[n - 1].op \in FileOps /\ calls[n - 1].outcome = "ok"
              /\ calls[n].file_name = FileNameOf(IdA)
    /\ (has_commands /\ BoundFile(listed, IdA) # <<>>) =>
         (calls # <<>> /\ calls[1].op = "unbind")
    /\ r.success =>
         /\ calls # <<>>
         /\ calls[Len(calls)].op = "bind" /\ calls[Len(calls)].outcome = "ok"
         /\ CacheExpired(r.cpm, now)
         /\ r.cpm.cache_timestamp = 0
         /\ IdA \notin r.cpm.device_parameters
    /\ (calls # <<>> /\ calls[Len(calls)].op = "bind"
        /\ calls[Len(calls)].outcome = "ok") => r.success

\* A request has applied parameters with success although its unbind call
\* failed: three calls were made and the cache is expired.
C39_Witness ==
  /\ req.handler = "apply_params"
  /\ req.success
  /\ Ops(req.calls) = <<"unbind", "update", "bind">>
  /\ req.calls[1].outcome = "raise"
  /\ cpm.cache_timestamp = 0
  /\ IdA \notin cpm.device_parameters

\* ---- C40
\* The request's value is a JSON integer between 1 and 30.
IntegerInRange(body) ==
  /\ body.has_vacant
  /\ body.value.kind = "int"
  /\ 1 <= body.value.whole /\ body.value.whole <= 30

\* C40: the threshold of the registry changes only in a step of
\* update_common_settings whose requested value is an integer between 1 and
\* 30, and becomes that value; a request with any other value leaves the
\* threshold of the registry as it is, and when the requests have returned
\* the persisted threshold is the one of the registry (the new one when the
\* value was accepted, the previous one otherwise).
C40_ThresholdGuard ==
  [][/\ vacant_time_minutes' # vacant_time_minutes =>
          \E r \in SettingsRequests, body \in CommonBodies :
            /\ CommonLoadReturn(r, body)
            /\ IntegerInRange(body)
            /\ vacant_time_minutes' = body.value.whole
     /\ SettingsQuiet' =>
          settings'.vacant_time_minutes = vacant_time_minutes']_vars

====
